---- MODULE Spec2Model ----
(***************************************************************************)
(* Model of the block-layer control plane in src/qemu/qemu_block.c:        *)
(* the staged attach/rollback engine for one storage layer and for a       *)
(* backing chain, the throttle-filter rollback, block commit start-up and  *)
(* its failure cleanup, the block job pivot and finalize, the              *)
(* blockdev-create job, and the validity and the merge actions of dirty    *)
(* bitmaps (specification SpecBitmaps).                                    *)
(*                                                                         *)
(* The device manager (qemu monitor) is modelled by the set of objects it  *)
(* holds (mon), and every request sent to it or to the access-control      *)
(* layer is appended to log as <<command, identity, accepted>>.  Which      *)
(* requests are refused is an input of every operation.                    *)
(***************************************************************************)
EXTENDS Integers, Sequences, FiniteSets, TLC

VARIABLES
    pc,        \* which operation ran last (position of the control thread)
    mon,       \* objects, nodes, chardevs and fd sets held by the device manager
    fdpassed,  \* qemuFDPass objects whose 'passed' flag is set
    chain,     \* the qemuBlockStorageSourceChainData in use
    filters,   \* the qemuBlockThrottleFiltersData in use
    log,       \* requests issued by the last operation, with their outcome
    lastErr,   \* the thread's last reported error
    ret,       \* return value of the last operation
    hist,      \* values recorded when an operation starts (history)
    job,       \* qemuBlockJobData of the disk's block job
    disk,      \* the virDomainDiskDef the job belongs to
    img,       \* access grants and read-only state of the images of a commit
    nodedata,  \* bitmaps of the layers of a chain (blockNamedNodeData)
    call,      \* the last call of a bitmap function: arguments and result
    vsrc,      \* the virStorageSource the property builders are applied to
    out,       \* the last call of a property builder and its result
    jobj,      \* a JSON object, the last operation on it and its result
    crt,       \* the thread in qemuBlockStorageSourceCreateGeneric, step by step
    fw         \* the firewall chain initialisation and the threads that call it

vars == <<pc, mon, fdpassed, chain, filters, log, lastErr, ret, hist, job, disk,
          img, nodedata, call, vsrc, out, jobj, crt, fw>>

(***************************************************************************)
(* Bounds                                                                  *)
(***************************************************************************)
MaxEnc == 1        \* encryption secrets of one layer
MaxLayers == 2     \* layers of a backing chain
MaxFilters == 2    \* throttle filters of one disk
MaxBitmapLayers == 3   \* layers of a chain whose bitmaps are merged

(***************************************************************************)
(* Identities, errors, commands                                            *)
(***************************************************************************)
Id(kind, layer, idx) == <<kind, layer, idx>>
NULL == <<"NULL", 0, 0>>
NoError == <<"none", NULL>>
Cmd(name, id) == <<name, id>>

\* RejectSets(ids): the sets of identities whose command the device manager
\* refuses in one operation: none, exactly one of them, or all of them.
RejectSets(ids) == {{}} \cup {{x} : x \in ids} \cup {ids}

(***************************************************************************)
(* Error preservation (virErrorPreserveLast / virErrorRestore)             *)
(***************************************************************************)
virErrorPreserveLast(err) == err

virErrorRestore(saved, cur) == IF saved = NoError THEN cur ELSE saved

(***************************************************************************)
(* The device manager.  A thread state s carries                           *)
(*   mon, fdpassed, log, err : as the variables of the same name           *)
(*   rej, rejDel : identities whose create / delete command is refused     *)
(*   d  : the qemuBlockStorageSourceAttachData being worked on             *)
(*   cd, fl, job, disk, img : as the variables chain, filters, job, ...    *)
(*   rc : the return value of the last call                                *)
(***************************************************************************)
\* "return 0;"
Ok(s) == [s EXCEPT !.rc = 0]

\* a request and its outcome: the request is logged; a refused request
\* reports an error
Refused(s, name, id) ==
    [s EXCEPT !.log = Append(@, <<name, id, FALSE>>), !.rc = -1,
              !.err = Cmd(name, id)]

Accepted(s, name, id) ==
    [s EXCEPT !.log = Append(@, <<name, id, TRUE>>), !.rc = 0]

\* a command that creates id: refused when the device manager rejects it or
\* already holds an object of that name
MonCreate(s, name, id) ==
    IF id \in s.rej \/ id \in s.mon
    THEN Refused(s, name, id)
    ELSE [Accepted(s, name, id) EXCEPT !.mon = @ \cup {id}]

\* a command that removes id: refused when the device manager rejects it or
\* holds no object of that name
MonDelete(s, name, id) ==
    IF id \in s.rejDel \/ id \notin s.mon
    THEN Refused(s, name, id)
    ELSE [Accepted(s, name, id) EXCEPT !.mon = @ \ {id}]

\* qemuMonitorAddObject(mon, &props, &alias): consumes the props, records the
\* alias only when the object was created.
qemuMonitorAddObject(s, propsF, aliasF) ==
    LET id == s.d[propsF]
        r == MonCreate(s, "object-add", id)
    IN  IF r.rc < 0
        THEN [r EXCEPT !.d[propsF] = NULL]
        ELSE [r EXCEPT !.d[propsF] = NULL, !.d[aliasF] = id]

qemuMonitorDelObject(s, alias) == MonDelete(s, "object-del", alias)

\* qemuMonitorBlockdevAdd(mon, &props): consumes the props.
qemuMonitorBlockdevAdd(s, propsF) ==
    [MonCreate(s, "blockdev-add", s.d[propsF]) EXCEPT !.d[propsF] = NULL]

qemuMonitorBlockdevDel(s, nodename) == MonDelete(s, "blockdev-del", nodename)

qemuMonitorAttachCharDev(s, alias) == MonCreate(s, "chardev-add", alias)

qemuMonitorDetachCharDev(s, alias) == MonDelete(s, "chardev-remove", alias)

\* qemuFDPassTransferMonitor: nothing to do without fdpass; marks the fdpass
\* object passed once the descriptors are in the device manager.
qemuFDPassTransferMonitor(s) ==
    IF s.d.fdpass = NULL
    THEN Ok(s)
    ELSE LET r == MonCreate(s, "add-fd", s.d.fdpass)
         IN  IF r.rc < 0 THEN r
             ELSE [r EXCEPT !.fdpassed = @ \cup {s.d.fdpass}]

\* qemuFDPassTransferMonitorRollback: removes the fd set of a passed fdpass,
\* preserving the error.
qemuFDPassTransferMonitorRollback(s) ==
    IF s.d.fdpass = NULL \/ s.d.fdpass \notin s.fdpassed
    THEN s
    ELSE [MonDelete(s, "remove-fd", s.d.fdpass)
             EXCEPT !.err = virErrorRestore(virErrorPreserveLast(s.err), @)]

(***************************************************************************)
(* Storage layers (virStorageSource with its private data).  A layer is    *)
(* described by which node names and dependency objects it has.            *)
(***************************************************************************)
Opt(present, id) == IF present THEN id ELSE NULL

\* Layer i of a chain as a virStorageSource: node names (nodenameformat,
\* sliceStorage nodename, nodenamestorage), unmanaged PR manager alias,
\* TLS alias, and the private data (secinfo, encinfo[], httpcookie,
\* tlsKeySecret, fdpass).
LayerSrc(i, c) ==
    [ nodenameformat  |-> Opt(c.format, Id("format", i, 0)),
      nodenameslice   |-> Opt(c.slice, Id("slice", i, 0)),
      nodenamestorage |-> Id("storage", i, 0),
      pr              |-> Opt(c.pr, Id("prmgr", i, 0)),
      tlsAlias        |-> Opt(c.tls, Id("tls", i, 0)),
      secinfo         |-> Opt(c.secinfo, Id("authsecret", i, 0)),
      encinfo         |-> [k \in 1..c.enccount |-> Id("encrypt", i, k)],
      httpcookie      |-> Opt(c.httpcookie, Id("httpcookie", i, 0)),
      tlsKeySecret    |-> Opt(c.tlsKeySecret, Id("tlskey", i, 0)),
      fdpass          |-> Opt(c.fdpass, Id("fdset", i, 0)) ]

\* g_new0(qemuBlockStorageSourceAttachData, 1)
NewAttachData ==
    [ prmgrProps |-> NULL, prmgrAlias |-> NULL,
      authsecretProps |-> NULL, authsecretAlias |-> NULL,
      httpcookiesecretProps |-> NULL, httpcookiesecretAlias |-> NULL,
      tlsKeySecretProps |-> NULL, tlsKeySecretAlias |-> NULL,
      tlsProps |-> NULL, tlsAlias |-> NULL,
      fdpass |-> NULL,
      encryptsecretCount |-> 0,
      encryptsecretProps |-> <<>>, encryptsecretAlias |-> <<>>,
      storageProps |-> NULL, storageNodeName |-> NULL, storageAttached |-> FALSE,
      storageSliceProps |-> NULL, storageSliceNodeName |-> NULL,
      storageSliceAttached |-> FALSE,
      formatProps |-> NULL, formatNodeName |-> NULL, formatAttached |-> FALSE,
      chardevDef |-> FALSE, chardevAlias |-> NULL, chardevAdded |-> FALSE ]

\* qemuBlockStorageSourceAttachPrepareBlockdev: the props of the format,
\* slice and storage nodes of the layer and their node names.
qemuBlockStorageSourceAttachPrepareBlockdev(src) ==
    LET d0 == NewAttachData
        d1 == IF src.nodenameformat # NULL
              THEN [d0 EXCEPT !.formatProps = src.nodenameformat,
                              !.formatNodeName = src.nodenameformat]
              ELSE d0
        d2 == IF src.nodenameslice # NULL
              THEN [d1 EXCEPT !.storageSliceNodeName = src.nodenameslice,
                              !.storageSliceProps = src.nodenameslice]
              ELSE d1
    IN  [d2 EXCEPT !.storageProps = src.nodenamestorage,
                   !.storageNodeName = src.nodenamestorage]

\* The props of the dependency objects of the layer, added to the attach data
\* by the caller that prepares an attach (one props object per dependency the
\* layer has).
AttachPrepareCommon(src, d) ==
    [d EXCEPT !.prmgrProps = src.pr,
              !.authsecretProps = src.secinfo,
              !.httpcookiesecretProps = src.httpcookie,
              !.tlsKeySecretProps = src.tlsKeySecret,
              !.tlsProps = src.tlsAlias,
              !.fdpass = src.fdpass,
              !.encryptsecretCount = Len(src.encinfo),
              !.encryptsecretProps = src.encinfo,
              !.encryptsecretAlias = [k \in 1..Len(src.encinfo) |-> NULL]]

\* Attach data of a vhost-user disk: only the character device.
AttachPrepareChardev(alias) ==
    [NewAttachData EXCEPT !.chardevDef = TRUE, !.chardevAlias = alias]

(***************************************************************************)
(* qemuBlockStorageSourceAttachApply and its steps                         *)
(***************************************************************************)
\* if (data->xProps && qemuMonitorAddObject(mon, &data->xProps, &data->xAlias) < 0)
AddObjectIfProps(s, propsF, aliasF) ==
    IF s.d[propsF] # NULL THEN qemuMonitorAddObject(s, propsF, aliasF) ELSE Ok(s)

\* each step is reached only when the steps before it succeeded
qemuBlockStorageSourceAttachApplyStorageDeps(s) ==
    LET authsecret(t) ==
            IF t.rc < 0 THEN t
            ELSE AddObjectIfProps(t, "authsecretProps", "authsecretAlias")
        httpcookiesecret(t) ==
            IF t.rc < 0 THEN t
            ELSE AddObjectIfProps(t, "httpcookiesecretProps",
                                  "httpcookiesecretAlias")
        tlsKeySecret(t) ==
            IF t.rc < 0 THEN t
            ELSE AddObjectIfProps(t, "tlsKeySecretProps", "tlsKeySecretAlias")
        tls(t) ==
            IF t.rc < 0 THEN t ELSE AddObjectIfProps(t, "tlsProps", "tlsAlias")
        fdpass(t) ==
            IF t.rc < 0 THEN t ELSE qemuFDPassTransferMonitor(t)
    IN  fdpass(tls(tlsKeySecret(httpcookiesecret(authsecret(
            AddObjectIfProps(s, "prmgrProps", "prmgrAlias"))))))

qemuBlockStorageSourceAttachApplyStorage(s) ==
    IF s.d.storageProps # NULL
    THEN LET r == qemuMonitorBlockdevAdd(s, "storageProps")
         IN  IF r.rc < 0 THEN r ELSE [r EXCEPT !.d.storageAttached = TRUE]
    ELSE Ok(s)

RECURSIVE ApplyFormatDepsFrom(_, _)
ApplyFormatDepsFrom(s, i) ==
    IF i > s.d.encryptsecretCount
    THEN [s EXCEPT !.rc = 0]
    ELSE LET id == s.d.encryptsecretProps[i]
             r == MonCreate(s, "object-add", id)
         IN  IF r.rc < 0
             THEN [r EXCEPT !.d.encryptsecretProps[i] = NULL]
             ELSE ApplyFormatDepsFrom(
                      [r EXCEPT !.d.encryptsecretProps[i] = NULL,
                                !.d.encryptsecretAlias[i] = id], i + 1)

qemuBlockStorageSourceAttachApplyFormatDeps(s) == ApplyFormatDepsFrom(s, 1)

qemuBlockStorageSourceAttachApplyFormat(s) ==
    IF s.d.formatProps # NULL
    THEN LET r == qemuMonitorBlockdevAdd(s, "formatProps")
         IN  IF r.rc < 0 THEN r ELSE [r EXCEPT !.d.formatAttached = TRUE]
    ELSE Ok(s)

\* mutant: the slice flag is set whether or not the node was created
AttachApplyStorageSlice_FlagOnFailure(s) ==
    IF s.d.storageSliceProps # NULL
    THEN [qemuMonitorBlockdevAdd(s, "storageSliceProps")
             EXCEPT !.d.storageSliceAttached = TRUE]
    ELSE Ok(s)

qemuBlockStorageSourceAttachApplyStorageSlice(s) ==
    IF s.d.storageSliceProps # NULL
    THEN LET r == qemuMonitorBlockdevAdd(s, "storageSliceProps")
         IN  IF r.rc < 0 THEN r ELSE [r EXCEPT !.d.storageSliceAttached = TRUE]
    ELSE Ok(s)

\* qemuChardevGetBackendProps: building the chardev props fails when the
\* caller's chardev definition is among the rejected inputs; no command.
qemuChardevGetBackendProps(s) ==
    IF Id("chardev-props", 0, 0) \in s.rej
    THEN [s EXCEPT !.rc = -1, !.err = Cmd("chardev-props", s.d.chardevAlias)]
    ELSE Ok(s)

\* if (data->chardevDef) { props, chardev-add, data->chardevAdded = true }
AttachApplyChardev(s) ==
    IF ~s.d.chardevDef
    THEN Ok(s)
    ELSE LET c1 == qemuChardevGetBackendProps(s)
         IN  IF c1.rc < 0 THEN c1
             ELSE LET c2 == qemuMonitorAttachCharDev(c1, c1.d.chardevAlias)
                  IN  IF c2.rc < 0 THEN c2
                      ELSE [c2 EXCEPT !.d.chardevAdded = TRUE, !.rc = 0]

\* mutant: the format node is created before the slice node
AttachApply_FormatBeforeSlice(s) ==
    LET formatDeps(t) ==
            IF t.rc < 0 THEN t
            ELSE qemuBlockStorageSourceAttachApplyFormatDeps(t)
        storage(t) ==
            IF t.rc < 0 THEN t ELSE qemuBlockStorageSourceAttachApplyStorage(t)
        format(t) ==
            IF t.rc < 0 THEN t ELSE qemuBlockStorageSourceAttachApplyFormat(t)
        storageSlice(t) ==
            IF t.rc < 0 THEN t
            ELSE qemuBlockStorageSourceAttachApplyStorageSlice(t)
        chardevPart(t) == IF t.rc < 0 THEN t ELSE AttachApplyChardev(t)
    IN  chardevPart(storageSlice(format(storage(formatDeps(
            qemuBlockStorageSourceAttachApplyStorageDeps(s))))))

\* the steps are joined by ||: a step is reached only when the steps before
\* it succeeded
qemuBlockStorageSourceAttachApply(s) ==
    LET formatDeps(t) ==
            IF t.rc < 0 THEN t
            ELSE qemuBlockStorageSourceAttachApplyFormatDeps(t)
        storage(t) ==
            IF t.rc < 0 THEN t ELSE qemuBlockStorageSourceAttachApplyStorage(t)
        storageSlice(t) ==
            IF t.rc < 0 THEN t
            ELSE qemuBlockStorageSourceAttachApplyStorageSlice(t)
        format(t) ==
            IF t.rc < 0 THEN t ELSE qemuBlockStorageSourceAttachApplyFormat(t)
        chardevPart(t) == IF t.rc < 0 THEN t ELSE AttachApplyChardev(t)
    IN  chardevPart(format(storageSlice(storage(formatDeps(
            qemuBlockStorageSourceAttachApplyStorageDeps(s))))))

(***************************************************************************)
(* qemuBlockStorageSourceAttachRollback                                    *)
(***************************************************************************)
RECURSIVE RollbackEncryptFrom(_, _)
RollbackEncryptFrom(s, i) ==
    IF i > s.d.encryptsecretCount
    THEN s
    ELSE RollbackEncryptFrom(
             IF s.d.encryptsecretAlias[i] # NULL
             THEN qemuMonitorDelObject(s, s.d.encryptsecretAlias[i])
             ELSE s, i + 1)

\* if (data->chardevAdded) qemuMonitorDetachCharDev(mon, data->chardevAlias)
DetachCharDevIfAdded(s) ==
    IF s.d.chardevAdded THEN qemuMonitorDetachCharDev(s, s.d.chardevAlias) ELSE s

\* if (data->xAttached) qemuMonitorBlockdevDel(mon, data->xNodeName)
BlockdevDelIfAttached(s, flagF, nameF) ==
    IF s.d[flagF] THEN qemuMonitorBlockdevDel(s, s.d[nameF]) ELSE s

\* if (data->xAlias) qemuMonitorDelObject(mon, data->xAlias, false)
DelObjectIfAlias(s, aliasF) ==
    IF s.d[aliasF] # NULL THEN qemuMonitorDelObject(s, s.d[aliasF]) ELSE s

\* the removal of the dependency objects
RollbackObjects(s4) ==
    LET s5 == DelObjectIfAlias(s4, "prmgrAlias")
        s6 == DelObjectIfAlias(s5, "authsecretAlias")
        s7 == RollbackEncryptFrom(s6, 1)
        s8 == DelObjectIfAlias(s7, "httpcookiesecretAlias")
        s9 == DelObjectIfAlias(s8, "tlsAlias")
        s10 == DelObjectIfAlias(s9, "tlsKeySecretAlias")
    IN  qemuFDPassTransferMonitorRollback(s10)

\* a storage node removed by its name alone
BlockdevDelIfNamed(s, nameF) ==
    IF s.d[nameF] # NULL THEN qemuMonitorBlockdevDel(s, s.d[nameF]) ELSE s

\* mutant: the storage node is removed whenever it has a name, flagged or not
AttachRollback_StorageUnflagged(s) ==
    LET orig_err == virErrorPreserveLast(s.err)
        s1 == DetachCharDevIfAdded(s)
        s2 == BlockdevDelIfAttached(s1, "formatAttached", "formatNodeName")
        s3 == BlockdevDelIfAttached(s2, "storageSliceAttached",
                                    "storageSliceNodeName")
        s4 == BlockdevDelIfNamed(s3, "storageNodeName")
        s11 == RollbackObjects(s4)
    IN  [s11 EXCEPT !.err = virErrorRestore(orig_err, @), !.rc = 0]

\* mutant: the storage node is removed before the slice node on top of it
AttachRollback_StorageBeforeSlice(s) ==
    LET orig_err == virErrorPreserveLast(s.err)
        s1 == DetachCharDevIfAdded(s)
        s2 == BlockdevDelIfAttached(s1, "formatAttached", "formatNodeName")
        s3 == BlockdevDelIfAttached(s2, "storageAttached", "storageNodeName")
        s4 == BlockdevDelIfAttached(s3, "storageSliceAttached",
                                    "storageSliceNodeName")
        s11 == RollbackObjects(s4)
    IN  [s11 EXCEPT !.err = virErrorRestore(orig_err, @), !.rc = 0]

\* mutant: the error of a failed teardown replaces the original error
AttachRollback_NoRestore(s) ==
    LET s1 == DetachCharDevIfAdded(s)
        s2 == BlockdevDelIfAttached(s1, "formatAttached", "formatNodeName")
        s3 == BlockdevDelIfAttached(s2, "storageSliceAttached",
                                    "storageSliceNodeName")
        s4 == BlockdevDelIfAttached(s3, "storageAttached", "storageNodeName")
        s11 == RollbackObjects(s4)
    IN  [s11 EXCEPT !.rc = 0]

qemuBlockStorageSourceAttachRollback(s) ==
    LET orig_err == virErrorPreserveLast(s.err)
        s1 == DetachCharDevIfAdded(s)
        s2 == BlockdevDelIfAttached(s1, "formatAttached", "formatNodeName")
        s3 == BlockdevDelIfAttached(s2, "storageSliceAttached",
                                    "storageSliceNodeName")
        s4 == BlockdevDelIfAttached(s3, "storageAttached", "storageNodeName")
        s5 == DelObjectIfAlias(s4, "prmgrAlias")
        s6 == DelObjectIfAlias(s5, "authsecretAlias")
        s7 == RollbackEncryptFrom(s6, 1)
        s8 == DelObjectIfAlias(s7, "httpcookiesecretAlias")
        s9 == DelObjectIfAlias(s8, "tlsAlias")
        s10 == DelObjectIfAlias(s9, "tlsKeySecretAlias")
        s11 == qemuFDPassTransferMonitorRollback(s10)
    IN  [s11 EXCEPT !.err = virErrorRestore(orig_err, @), !.rc = 0]

\* qemuBlockStorageSourceDetachPrepare: attach data for removing a layer
\* that is in use, from the layer's node names and aliases.
qemuBlockStorageSourceDetachPrepare(src) ==
    LET d0 == NewAttachData
        d1 == IF src.nodenameformat # NULL
              THEN [d0 EXCEPT !.formatNodeName = src.nodenameformat,
                              !.formatAttached = TRUE]
              ELSE d0
        d2 == IF src.nodenameslice # NULL
              THEN [d1 EXCEPT !.storageSliceNodeName = src.nodenameslice,
                              !.storageSliceAttached = TRUE]
              ELSE d1
    IN  [d2 EXCEPT !.storageNodeName = src.nodenamestorage,
                   !.storageAttached = TRUE,
                   !.prmgrAlias = src.pr,
                   !.tlsAlias = src.tlsAlias,
                   !.authsecretAlias = src.secinfo,
                   !.encryptsecretCount = Len(src.encinfo),
                   !.encryptsecretProps = [k \in 1..Len(src.encinfo) |-> NULL],
                   !.encryptsecretAlias = src.encinfo,
                   !.httpcookiesecretAlias = src.httpcookie,
                   !.tlsKeySecretAlias = src.tlsKeySecret,
                   !.fdpass = src.fdpass]


(***************************************************************************)
(* Chain level: qemuBlockStorageSourceChainData is                         *)
(*   srcdata : attach data of the layers, top layer first                  *)
(*   copyOnReadProps, copyOnReadNodename, copyOnReadAttached               *)
(***************************************************************************)
NewChainData ==
    [ srcdata |-> <<>>, copyOnReadProps |-> NULL,
      copyOnReadNodename |-> NULL, copyOnReadAttached |-> FALSE ]

\* qemuBlockStorageSourceChainDetachPrepareBlockdev: detach data of every
\* layer of the chain, top layer first.
qemuBlockStorageSourceChainDetachPrepareBlockdev(srcs) ==
    [NewChainData EXCEPT
        !.srcdata = [i \in 1..Len(srcs) |->
                        qemuBlockStorageSourceDetachPrepare(srcs[i])]]

\* qemuBlockStorageSourceChainDetachPrepareChardev
qemuBlockStorageSourceChainDetachPrepareChardev(chardevAlias) ==
    [NewChainData EXCEPT
        !.srcdata = << [NewAttachData EXCEPT !.chardevAlias = chardevAlias,
                                             !.chardevAdded = TRUE] >>]

\* the attach data worked on is written back to srcdata[i]
StoreLayer(r, i) == [r EXCEPT !.cd.srcdata[i] = r.d]

\* one iteration of the loops below: run Apply / Rollback on srcdata[i]
ChainApplyLayer(s, i) ==
    StoreLayer(qemuBlockStorageSourceAttachApply(
                   [s EXCEPT !.d = s.cd.srcdata[i]]), i)

ChainRollbackLayer(s, i) ==
    StoreLayer(qemuBlockStorageSourceAttachRollback(
                   [s EXCEPT !.d = s.cd.srcdata[i]]), i)

RECURSIVE ChainAttachFrom(_, _)
ChainAttachFrom(s, i) ==
    IF i = 0
    THEN Ok(s)
    ELSE LET below(r) == IF r.rc < 0 THEN r ELSE ChainAttachFrom(r, i - 1)
         IN  below(ChainApplyLayer(s, i))

\* if (data->copyOnReadProps &&
\*     qemuMonitorBlockdevAdd(mon, &data->copyOnReadProps) < 0) return -1;
ChainAttachCopyOnRead(r) ==
    IF r.cd.copyOnReadProps # NULL
    THEN [MonCreate(r, "blockdev-add", r.cd.copyOnReadProps)
             EXCEPT !.cd.copyOnReadProps = NULL]
    ELSE [r EXCEPT !.rc = 0]

\* the layers applied top to bottom
RECURSIVE ChainAttachUpFrom(_, _)
ChainAttachUpFrom(s, i) ==
    IF i > Len(s.cd.srcdata)
    THEN Ok(s)
    ELSE LET above(r) == IF r.rc < 0 THEN r ELSE ChainAttachUpFrom(r, i + 1)
         IN  above(ChainApplyLayer(s, i))

\* mutant: the layers are applied top to bottom
ChainAttach_TopDown(s) ==
    LET copyOnRead(r) == IF r.rc < 0 THEN r ELSE ChainAttachCopyOnRead(r)
    IN  copyOnRead(ChainAttachUpFrom(s, 1))

qemuBlockStorageSourceChainAttach(s) ==
    LET copyOnRead(r) == IF r.rc < 0 THEN r ELSE ChainAttachCopyOnRead(r)
    IN  copyOnRead(ChainAttachFrom(s, Len(s.cd.srcdata)))

RECURSIVE ChainDetachFrom(_, _)
ChainDetachFrom(s, i) ==
    IF i > Len(s.cd.srcdata)
    THEN s
    ELSE ChainDetachFrom(ChainRollbackLayer(s, i), i + 1)

\* if (data->copyOnReadAttached) qemuMonitorBlockdevDel(mon, copyOnReadNodename)
ChainDetachCopyOnRead(s) ==
    IF s.cd.copyOnReadAttached
    THEN qemuMonitorBlockdevDel(s, s.cd.copyOnReadNodename)
    ELSE s

qemuBlockStorageSourceChainDetach(s) ==
    Ok(ChainDetachFrom(ChainDetachCopyOnRead(s), 1))

(***************************************************************************)
(* Throttle filters: qemuBlockThrottleFiltersData is a sequence of         *)
(* [filterProps, filterNodeName, filterAttached]                           *)
(***************************************************************************)
qemuBlockThrottleFilterAttachPrepareBlockdev(k) ==
    [ filterProps |-> Id("throttle", 0, k),
      filterNodeName |-> Id("throttle", 0, k),
      filterAttached |-> FALSE ]

RECURSIVE ThrottleFiltersAttachFrom(_, _)
ThrottleFiltersAttachFrom(s, i) ==
    IF i > Len(s.fl)
    THEN [s EXCEPT !.rc = 0]
    ELSE LET r == [MonCreate(s, "blockdev-add", s.fl[i].filterProps)
                      EXCEPT !.fl[i].filterProps = NULL]
         IN  IF r.rc < 0 THEN r
             ELSE ThrottleFiltersAttachFrom(
                      [r EXCEPT !.fl[i].filterAttached = TRUE], i + 1)

qemuBlockThrottleFiltersAttach(s) == ThrottleFiltersAttachFrom(s, 1)

qemuBlockThrottleFilterAttachRollback(s, i) ==
    IF s.fl[i].filterAttached
    THEN [qemuMonitorBlockdevDel(s, s.fl[i].filterNodeName)
             EXCEPT !.err = virErrorRestore(virErrorPreserveLast(s.err), @)]
    ELSE s

RECURSIVE ThrottleFiltersDetachFrom(_, _)
ThrottleFiltersDetachFrom(s, i) ==
    IF i = 0
    THEN s
    ELSE ThrottleFiltersDetachFrom(qemuBlockThrottleFilterAttachRollback(s, i),
                                   i - 1)

qemuBlockThrottleFiltersDetach(s) ==
    Ok(ThrottleFiltersDetachFrom(s, Len(s.fl)))


(***************************************************************************)
(* Block jobs and disks                                                    *)
(***************************************************************************)
NoJob ==
    [ state |-> "NONE", type |-> "NONE", jobflagsmissing |-> FALSE,
      shallow |-> FALSE, reuse |-> FALSE ]

\* mirror: whether the disk has a mirror; mirrorBacking: the layers of the
\* backing chain of the mirror (virStorageSourceHasBacking iff not empty)
NoDisk ==
    [ mirror |-> FALSE, mirrorBacking |-> <<>>, mirrorState |-> "NONE",
      mirrorJob |-> "NONE" ]

JobName == Id("job", 0, 0)

\* the start-up of the job of an operation: how many job objects it made
\* and the state of the job at every qemuBlockJobStartupFinalize ("NONE"
\* when it is called without job)
NoStartup == [ created |-> 0, finalized |-> <<>> ]

\* qemuBlockJobStarted: a new job becomes running
qemuBlockJobStarted(j) ==
    IF j.state = "NEW" THEN [j EXCEPT !.state = "RUNNING"] ELSE j

\* qemuBlockJobStartupFinalize: a job that was never started is unregistered
qemuBlockJobStartupFinalize(j) ==
    IF j.state = "NEW" THEN NoJob ELSE j

\* how often the monitor was entered in the lock trace of a thread
Enters(lock) == Cardinality({ i \in DOMAIN lock : lock[i] = "enter" })

\* the domain is no longer active: it was gone from the start, or it died
\* after the monitor was entered k times
virDomainObjIsActive(s) ==
    /\ Id("enter-monitor", 0, 0) \notin s.rej
    /\ \A k \in 1..Len(s.lock) :
          Id("domain-died", 0, k) \in s.rej => Enters(s.lock) < k

\* qemuDomainObjEnterMonitorAsync fails when the domain is gone; the lock
\* trace of the thread records every enter, exit, wait and job update
qemuDomainObjEnterMonitorAsync(s) ==
    IF ~virDomainObjIsActive(s)
    THEN [s EXCEPT !.rc = -1, !.err = Cmd("enter-monitor", NULL)]
    ELSE [s EXCEPT !.rc = 0, !.lock = Append(@, "enter")]

qemuDomainObjExitMonitor(s) == [s EXCEPT !.lock = Append(@, "exit")]

(***************************************************************************)
(* Images of a block commit: 1 base, 2 data file of base, 3 parent of top, *)
(* 4 data file of the parent of top.  img is                               *)
(*   active : topSource is the disk's active layer                         *)
(*   baseDf, tpDf : the data files exist                                   *)
(*   tp : "none", "disksrc" (top_parent is the active layer) or "backing"  *)
(*   grant[k] : access granted to the hypervisor, "ro" or "rw"             *)
(*   readonly[k] : the layer's readonly flag                               *)
(*   mode[k] : how the device manager has the image open                   *)
(***************************************************************************)
BaseSource == 1
BaseDataFile == 2
TopParent == 3
TopParentDataFile == 4
Images == {BaseSource, BaseDataFile, TopParent, TopParentDataFile}
Image(k) == Id("image", k, 0)

NoImages ==
    [ active |-> FALSE, baseDf |-> FALSE, tp |-> "none", tpDf |-> FALSE,
      grant |-> [k \in Images |-> "ro"],
      readonly |-> [k \in Images |-> TRUE],
      mode |-> [k \in Images |-> "ro"] ]

\* qemuDomainStorageSourceAccessAllow(driver, vm, src, readonly, ...)
qemuDomainStorageSourceAccessAllow(s, k, readonly) ==
    LET name == IF readonly THEN "access-ro" ELSE "access-rw"
    IN  IF Id(name, k, 0) \in s.rej
        THEN Refused(s, name, Image(k))
        ELSE [Accepted(s, name, Image(k))
                 EXCEPT !.img.grant[k] = IF readonly THEN "ro" ELSE "rw"]

qemuBlockReopenAccess(s, k, readonly) ==
    LET name == IF readonly THEN "reopen-ro" ELSE "reopen-rw"
        s1 == [s EXCEPT !.img.readonly[k] = readonly]
        e == qemuDomainObjEnterMonitorAsync(s1)
    IN  IF s.img.readonly[k] = readonly
        THEN [s EXCEPT !.rc = 0]
        ELSE IF Id("reopen-props", k, 0) \in s.rej
        THEN [s1 EXCEPT !.rc = -1, !.err = Cmd("reopen-props", Image(k)),
                        !.img.readonly[k] = ~readonly]
        ELSE IF e.rc < 0
        THEN [e EXCEPT !.img.readonly[k] = ~readonly]
        ELSE IF Id(name, k, 0) \in s.rej
        THEN [qemuDomainObjExitMonitor(Refused(e, name, Image(k)))
                 EXCEPT !.img.readonly[k] = ~readonly]
        ELSE [qemuDomainObjExitMonitor(Accepted(e, name, Image(k)))
                 EXCEPT !.img.mode[k] = IF readonly THEN "ro" ELSE "rw"]

qemuBlockReopenReadWrite(s, k) == qemuBlockReopenAccess(s, k, FALSE)

qemuBlockReopenReadOnly(s, k) == qemuBlockReopenAccess(s, k, TRUE)

(***************************************************************************)
(* qemuBlockCommit                                                         *)
(***************************************************************************)
\* the checks before any access is granted
CommitCheck(s, flagActive) ==
    IF Id("commit-invalid", 0, 0) \in s.rej
    THEN [s EXCEPT !.rc = -1, !.err = Cmd("commit-invalid", NULL)]
    ELSE IF s.img.active /\ ~flagActive
    THEN [s EXCEPT !.rc = -1, !.err = Cmd("commit-needs-active-flag", NULL)]
    ELSE IF ~s.img.active /\ flagActive
    THEN [s EXCEPT !.rc = -1, !.err = Cmd("commit-not-active", NULL)]
    ELSE IF s.img.active /\ Id("mirror-copy", 0, 0) \in s.rej
    THEN [s EXCEPT !.rc = -1, !.err = Cmd("mirror-copy", NULL)]
    ELSE [s EXCEPT !.rc = 0]

\* access to a data file: allow it read-write, then reopen it read-write
CommitGrantDataFile(s, k) ==
    LET a == qemuDomainStorageSourceAccessAllow(s, k, FALSE)
    IN  IF a.rc < 0 THEN a ELSE qemuBlockReopenReadWrite(a, k)

\* write access on base and its data file
CommitGrantBase(s) ==
    LET a == qemuDomainStorageSourceAccessAllow(s, BaseSource, FALSE)
    IN  IF a.rc < 0 THEN a
        ELSE IF a.img.baseDf THEN CommitGrantDataFile(a, BaseDataFile)
        ELSE a

\* write access on the parent of top and its data file
CommitGrantTopParent(s) ==
    IF s.img.tp # "backing"
    THEN s
    ELSE LET a == qemuDomainStorageSourceAccessAllow(s, TopParent, FALSE)
         IN  IF a.rc < 0 THEN a
             ELSE IF a.img.tpDf THEN CommitGrantDataFile(a, TopParentDataFile)
             ELSE a

\* granting write access on base and on the parent of top
CommitGrant(s) ==
    LET topParent(b) == IF b.rc < 0 THEN b ELSE CommitGrantTopParent(b)
    IN  topParent(CommitGrantBase(s))

\* mutant: the disk takes a mirror also for a commit below the active layer
CommitIssued_AlwaysMirror(e) ==
    [qemuDomainObjExitMonitor(Accepted(e, "block-commit", JobName)) EXCEPT
        !.job = qemuBlockJobStarted(@),
        !.disk.mirror = TRUE,
        !.disk.mirrorJob = "ACTIVE_COMMIT"]

\* block-commit was accepted: the job is started and the disk records it
CommitIssued(e) ==
    LET issued == qemuDomainObjExitMonitor(
                      Accepted(e, "block-commit", JobName))
        started == [issued EXCEPT !.job = qemuBlockJobStarted(@)]
    IN  IF e.img.active
        THEN [started EXCEPT !.disk.mirror = TRUE,
                             !.disk.mirrorJob = "ACTIVE_COMMIT"]
        ELSE started

\* creating the job and sending block-commit
CommitStart(s) ==
    LET newjob == [NoJob EXCEPT !.state = "NEW",
                      !.type = IF s.img.active THEN "ACTIVE_COMMIT" ELSE "COMMIT"]
        j == [s EXCEPT !.job = newjob, !.disk.mirrorState = "NONE",
                       !.startup.created = @ + 1]
        e == qemuDomainObjEnterMonitorAsync(j)
    IN  IF Id("job-new", 0, 0) \in s.rej
        THEN [s EXCEPT !.rc = -1, !.err = Cmd("job-new", NULL)]
        ELSE IF s.img.tp # "none" /\ Id("backing-path", 0, 0) \in s.rej
        THEN [j EXCEPT !.rc = -1, !.err = Cmd("backing-path", NULL)]
        ELSE IF e.rc < 0 THEN e
        ELSE IF Id("block-commit", 0, 0) \in s.rej
        THEN qemuDomainObjExitMonitor(Refused(e, "block-commit", JobName))
        ELSE CommitIssued(e)

\* revoking the access to a data file; reopen is the reopen the code calls
CommitRevokeBaseDataFile(s) ==
    IF s.img.baseDf
    THEN qemuBlockReopenReadOnly(
             qemuDomainStorageSourceAccessAllow(s, BaseDataFile, TRUE),
             BaseDataFile)
    ELSE s

CommitRevokeTopParentDataFile(s) ==
    IF s.img.tpDf
    THEN qemuBlockReopenReadWrite(
             qemuDomainStorageSourceAccessAllow(s, TopParentDataFile, TRUE),
             TopParentDataFile)
    ELSE s

\* mutant: the cleanup leaves the parent of top as it is
CommitRevokeTopParent_None(s) == s

CommitRevokeTopParent(s) ==
    IF s.img.tp = "backing"
    THEN qemuDomainStorageSourceAccessAllow(
             CommitRevokeTopParentDataFile(s), TopParent, TRUE)
    ELSE s

\* mutant: the cleanup revokes the access of the layers whose grant was
\* completed, and leaves the data files open as they are
CommitCleanup_OnlyGranted(s) ==
    LET orig_err == virErrorPreserveLast(s.err)
        revoke(t, k) ==
            IF t.img.grant[k] = "rw"
            THEN qemuDomainStorageSourceAccessAllow(t, k, TRUE) ELSE t
        done == revoke(revoke(revoke(revoke(s, BaseDataFile), BaseSource),
                              TopParentDataFile), TopParent)
    IN  [done EXCEPT !.err = virErrorRestore(orig_err, @),
                     !.cleanupErr = orig_err]

\* the cleanup label: revoke the access again when the start failed
CommitCleanup(s) ==
    LET orig_err == virErrorPreserveLast(s.err)
        b == CommitRevokeBaseDataFile(s)
        c == qemuDomainStorageSourceAccessAllow(b, BaseSource, TRUE)
        done == CommitRevokeTopParent(c)
    IN  [done EXCEPT !.err = virErrorRestore(orig_err, @),
                     !.cleanupErr = orig_err]

\* from the first grant to the job's start
CommitRun(s) ==
    LET start(g) == IF g.rc < 0 THEN g ELSE CommitStart(g)
    IN  start(CommitGrant(s))

\* the cleanup label and qemuBlockJobStartupFinalize
CommitFinalize(cl, rc) ==
    [cl EXCEPT !.startup.finalized = Append(@, cl.job.state),
               !.job = qemuBlockJobStartupFinalize(@), !.rc = rc]

CommitEnd(r) ==
    IF r.rc < 0 THEN CommitFinalize(CommitCleanup(r), r.rc)
    ELSE CommitFinalize(r, r.rc)

qemuBlockCommit(s, flagActive) ==
    LET run(c) == IF c.rc < 0 THEN c ELSE CommitEnd(CommitRun(c))
    IN  run(CommitCheck(s, flagActive))

(***************************************************************************)
(* qemuBlockPivot                                                          *)
(***************************************************************************)
\* attach data of every layer of a chain that is to be attached
ChainAttachPrepareBlockdev(srcs) ==
    [NewChainData EXCEPT
        !.srcdata = [i \in 1..Len(srcs) |->
            AttachPrepareCommon(srcs[i],
                qemuBlockStorageSourceAttachPrepareBlockdev(srcs[i]))]]

\* what the transactions of a pivot leave in the device manager
MirrorBackingInstalled == Id("mirror-backing", 0, 0)
TmpActiveWrite == Id("libvirt-tmp-activewrite", 0, 0)

\* qemuMonitorTransaction with the blockdev-snapshot action of a pivot
qemuMonitorTransactionSnapshot(s) ==
    MonCreate(s, "transaction-snapshot", MirrorBackingInstalled)

\* qemuMonitorTransaction with the bitmap-add action of a pivot
qemuMonitorTransactionBitmapAdd(s) ==
    MonCreate(s, "transaction-bitmap-add", TmpActiveWrite)

qemuMonitorJobComplete(s) ==
    IF JobName \in s.rej
    THEN Refused(s, "job-complete", JobName)
    ELSE Accepted(s, "job-complete", JobName)

PivotFail(s, what) == [s EXCEPT !.rc = -1, !.err = Cmd(what, NULL)]

\* the mirror's backing chain is opened late: shallow copy into a reused image
PivotLate(s) ==
    /\ s.job.type = "COPY"
    /\ ~s.job.jobflagsmissing
    /\ s.job.reuse /\ s.job.shallow
    /\ s.disk.mirrorBacking # <<>>

\* the pivot registers the transient write-tracking bitmap
PivotBitmapActions(s) ==
    \/ s.job.type = "COPY" /\ ~s.job.jobflagsmissing
    \/ s.job.type = "ACTIVE_COMMIT"

\* mutant: a job that is not ready is pivoted all the same
PivotCheck_NoState(s) ==
    IF s.job.type \in {"NONE", "LAST"}
    THEN PivotFail(s, "invalid-job-type")
    ELSE IF s.job.type \notin {"COPY", "ACTIVE_COMMIT"}
    THEN PivotFail(s, "pivot-unsupported")
    ELSE [s EXCEPT !.rc = 0]

\* the checks of the job state and the job type
PivotCheck(s) ==
    IF s.job.state # "READY" THEN PivotFail(s, "not-ready")
    ELSE IF s.job.type \in {"NONE", "LAST"}
    THEN PivotFail(s, "invalid-job-type")
    ELSE IF s.job.type \notin {"COPY", "ACTIVE_COMMIT"}
    THEN PivotFail(s, "pivot-unsupported")
    ELSE [s EXCEPT !.rc = 0]

\* building the transaction actions and the attach data of the chain
PivotPrepare(s) ==
    IF PivotBitmapActions(s) /\ Id("bitmap-add-build", 0, 0) \in s.rej
    THEN PivotFail(s, "bitmap-add-build")
    ELSE IF PivotLate(s) /\ Id("prepare-host-chain", 0, 0) \in s.rej
    THEN PivotFail(s, "prepare-host-chain")
    ELSE IF PivotLate(s) /\ Id("chain-prepare", 0, 0) \in s.rej
    THEN PivotFail(s, "chain-prepare")
    ELSE IF PivotLate(s) /\ Id("snapshot-build", 0, 0) \in s.rej
    THEN PivotFail(s, "snapshot-build")
    ELSE [s EXCEPT !.rc = 0,
                   !.cd = IF PivotLate(s)
                          THEN ChainAttachPrepareBlockdev(s.disk.mirrorBacking)
                          ELSE NewChainData]

\* the snapshot transaction that installs the backing chain; the chain is
\* unplugged again when the transaction is refused
PivotSnapshot(a) ==
    LET t == qemuMonitorTransactionSnapshot(a)
    IN  IF t.rc # 0
        THEN [qemuBlockStorageSourceChainDetach(t) EXCEPT !.rc = -1]
        ELSE t

\* mutant: the snapshot transaction is sent after a failed chain attach too
PivotInstallChain_SnapshotAnyway(e) ==
    IF ~PivotLate(e)
    THEN e
    ELSE PivotSnapshot(qemuBlockStorageSourceChainAttach(e))

\* if (chainattachdata) { attach the chain, then the snapshot transaction }
PivotInstallChain(e) ==
    IF ~PivotLate(e)
    THEN e
    ELSE LET snapshot(a) == IF a.rc < 0 THEN a ELSE PivotSnapshot(a)
         IN  snapshot(qemuBlockStorageSourceChainAttach(e))

\* if (bitmapactions && rc == 0) ignore_value(qemuMonitorTransaction(...))
PivotBitmap(c) ==
    IF PivotBitmapActions(c) /\ c.rc = 0
    THEN [qemuMonitorTransactionBitmapAdd(c) EXCEPT !.rc = 0]
    ELSE c

\* if (rc == 0) ret = qemuMonitorJobComplete(mon, job->name)
PivotComplete(b) ==
    IF b.rc = 0 THEN qemuMonitorJobComplete(b) ELSE [b EXCEPT !.rc = -1]

\* a refused snapshot transaction that is taken for a success
PivotInstallChain_Continue(e) ==
    IF ~PivotLate(e)
    THEN e
    ELSE LET snapshot(a) == IF a.rc < 0 THEN a ELSE Ok(PivotSnapshot(a))
         IN  snapshot(qemuBlockStorageSourceChainAttach(e))

\* mutant: a refused snapshot transaction does not stop the pivot
PivotMonitor_ContinueAfterSnapshot(e) ==
    PivotComplete(PivotBitmap(PivotInstallChain_Continue(e)))

\* mutant: the bitmap is registered before the backing chain is installed
PivotMonitor_BitmapFirst(e) ==
    PivotComplete(PivotInstallChain(PivotBitmap(e)))

\* the commands sent while the monitor is entered; rc is the result of
\* job-complete, or -1 when it was not sent
PivotMonitor(e) ==
    PivotComplete(PivotBitmap(PivotInstallChain(e)))

\* the job-complete command was accepted
PivotDone(fin) ==
    [fin EXCEPT !.disk.mirrorState = IF fin.disk.mirror THEN "PIVOT" ELSE @,
                !.job.state = "PIVOTING",
                !.rc = 0]

\* every step returns -1 at once when it fails
qemuBlockPivot(s) ==
    LET prepare(t) == IF t.rc < 0 THEN t ELSE PivotPrepare(t)
        enter(t) == IF t.rc < 0 THEN t ELSE qemuDomainObjEnterMonitorAsync(t)
        monitor(t) == IF t.rc < 0 THEN t
                      ELSE qemuDomainObjExitMonitor(PivotMonitor(t))
        done(t) == IF t.rc < 0 THEN t ELSE PivotDone(t)
    IN  done(monitor(enter(prepare(PivotCheck(s)))))

\* qemuMonitorJobFinalize(priv->mon, job->name)
qemuMonitorJobFinalize(e) ==
    IF Id("job-finalize", 0, 0) \in e.rej
    THEN Refused(e, "job-finalize", JobName)
    ELSE Accepted(e, "job-finalize", JobName)

\* mutant: the monitor is left only when job-finalize was accepted
Finalize_ExitOnSuccess(s) ==
    LET exit(t) == IF t.rc < 0 THEN t ELSE qemuDomainObjExitMonitor(t)
        finalize(e) == IF e.rc < 0 THEN e ELSE exit(qemuMonitorJobFinalize(e))
    IN  finalize(qemuDomainObjEnterMonitorAsync(s))

\* qemuBlockFinalize
qemuBlockFinalize(s) ==
    LET finalize(e) ==
            IF e.rc < 0 THEN e
            ELSE qemuDomainObjExitMonitor(qemuMonitorJobFinalize(e))
    IN  finalize(qemuDomainObjEnterMonitorAsync(s))

(***************************************************************************)
(* qemuBlockStorageSourceCreateGeneric: a blockdev-create job that is      *)
(* waited for.  outcome is how the wait ends: the state the job reaches,   *)
(* or "wait-failed" when qemuDomainObjWait fails while the job runs.       *)
(***************************************************************************)
\* qemuBlockJobNewCreate
CreateNewJob(s) ==
    IF Id("job-new", 0, 0) \in s.rej
    THEN [s EXCEPT !.rc = -1, !.err = Cmd("job-new", NULL)]
    ELSE [s EXCEPT !.rc = 0,
                   !.job = [NoJob EXCEPT !.state = "NEW", !.type = "CREATE"],
                   !.startup.created = @ + 1]

\* qemuMonitorBlockdevCreate(priv->mon, job->name, &props)
qemuMonitorBlockdevCreate(e) ==
    IF Id("blockdev-create", 0, 0) \in e.rej
    THEN Refused(e, "blockdev-create", JobName)
    ELSE Accepted(e, "blockdev-create", JobName)

\* the job is started and waited for until it no longer runs: the job is
\* updated, and while it runs the thread waits and updates it again
CreateWait(c, outcome) ==
    IF outcome = "wait-failed"
    THEN [c EXCEPT !.job = qemuBlockJobStarted(@), !.rc = -1,
                   !.err = Cmd("wait", NULL),
                   !.lock = @ \o <<"update", "wait">>]
    ELSE [c EXCEPT !.job.state = outcome,
                   !.rc = IF outcome = "COMPLETED" THEN 0 ELSE -1,
                   !.err = IF outcome = "COMPLETED" THEN @
                           ELSE Cmd("blockdev-create-job", NULL),
                   !.lock = @ \o <<"update", "wait", "update">>]

\* mutant: the job is started before blockdev-create is answered
CreateRun_StartedFirst(j, outcome) ==
    LET create(e) == IF e.rc < 0 THEN e
                     ELSE qemuDomainObjExitMonitor(qemuMonitorBlockdevCreate(e))
        wait(c) == IF c.rc < 0 THEN c ELSE CreateWait(c, outcome)
    IN  wait(create(qemuDomainObjEnterMonitorAsync(
            [j EXCEPT !.job = qemuBlockJobStarted(@)])))

\* from entering the monitor to the end of the wait
CreateRun(j, outcome) ==
    LET create(e) == IF e.rc < 0 THEN e
                     ELSE qemuDomainObjExitMonitor(qemuMonitorBlockdevCreate(e))
        wait(c) == IF c.rc < 0 THEN c ELSE CreateWait(c, outcome)
    IN  wait(create(qemuDomainObjEnterMonitorAsync(j)))

\* cleanup: qemuBlockJobStartupFinalize(vm, job); return ret
CreateCleanup(w) ==
    [w EXCEPT !.startup.finalized = Append(@, w.job.state),
              !.job = qemuBlockJobStartupFinalize(@)]

qemuBlockStorageSourceCreateGeneric(s, outcome) ==
    LET run(j) == IF j.rc < 0 THEN j ELSE CreateCleanup(CreateRun(j, outcome))
    IN  run(CreateNewJob(s))

(***************************************************************************)
(* qemuBlockStorageSourceCreate: the image of a layer is created, formatted*)
(* and attached.  o describes the layer and the run:                       *)
(*   sliceStorage, readonly : fields of the layer                          *)
(*   storage : "local" (a local image that is not raw: nothing to create), *)
(*             "noprops" (no creation props for the protocol) or "create"  *)
(*   format : "raw", "datafile" (the layer has a data file), "noprops"     *)
(*            (the format cannot be created) or "create"                   *)
(*   outcome : how the wait for a blockdev-create job ends                 *)
(* The image record of the layer is img slot CreateSource.                 *)
(***************************************************************************)
CreateSource == BaseSource

\* qemuBlockStorageSourceCreateStorage
qemuBlockStorageSourceCreateStorage(s, o) ==
    IF o.storage = "local" THEN [s EXCEPT !.rc = 0]
    ELSE IF Id("create-storage-props", 0, 0) \in s.rej
    THEN [s EXCEPT !.rc = -1, !.err = Cmd("create-storage-props", NULL)]
    ELSE IF o.storage = "noprops" THEN [s EXCEPT !.rc = 0]
    ELSE qemuBlockStorageSourceCreateGeneric(s, o.outcome)

\* qemuBlockStorageSourceCreateFormat
qemuBlockStorageSourceCreateFormat(s, o) ==
    IF o.format = "raw" THEN [s EXCEPT !.rc = 0]
    ELSE IF o.format = "datafile"
    THEN [s EXCEPT !.rc = -1, !.err = Cmd("create-datafile", NULL)]
    ELSE IF Id("create-format-props", 0, 0) \in s.rej
    THEN [s EXCEPT !.rc = -1, !.err = Cmd("create-format-props", NULL)]
    ELSE IF o.format = "noprops"
    THEN [s EXCEPT !.rc = -1, !.err = Cmd("create-format", NULL)]
    ELSE qemuBlockStorageSourceCreateGeneric(s, o.outcome)

\* grant write access to read-only images during formatting
CreateGrant(s, o) ==
    IF o.readonly
    THEN qemuDomainStorageSourceAccessAllow(s, CreateSource, FALSE)
    ELSE [s EXCEPT !.rc = 0]

\* revoke write access to read-only images during formatting
CreateRevoke(s, o) ==
    IF o.readonly
    THEN qemuDomainStorageSourceAccessAllow(s, CreateSource, TRUE)
    ELSE [s EXCEPT !.rc = 0]

\* the dependencies of the storage and of the format are added
CreateApplyDeps(e) ==
    LET format(t) == IF t.rc < 0 THEN t
                     ELSE qemuBlockStorageSourceAttachApplyFormatDeps(t)
    IN  qemuDomainObjExitMonitor(
            format(qemuBlockStorageSourceAttachApplyStorageDeps(e)))

\* the storage node is added
CreateApplyStorage(e) ==
    qemuDomainObjExitMonitor(qemuBlockStorageSourceAttachApplyStorage(e))

\* the format node is added
CreateApplyFormat(e) ==
    qemuDomainObjExitMonitor(qemuBlockStorageSourceAttachApplyFormat(e))

\* mutant: the format of the image is created before its storage node is added
CreateSteps_FormatJobFirst(g, o) ==
    LET enter(t) == IF t.rc < 0 THEN t ELSE qemuDomainObjEnterMonitorAsync(t)
        deps(t) == IF t.rc < 0 THEN t ELSE CreateApplyDeps(t)
        createStorage(t) ==
            IF t.rc < 0 THEN t ELSE qemuBlockStorageSourceCreateStorage(t, o)
        storage(t) == IF t.rc < 0 THEN t ELSE CreateApplyStorage(t)
        createFormat(t) ==
            IF t.rc < 0 THEN t ELSE qemuBlockStorageSourceCreateFormat(t, o)
        revoke(t) == IF t.rc < 0 THEN t ELSE CreateRevoke(t, o)
        format(t) == IF t.rc < 0 THEN t ELSE CreateApplyFormat(t)
    IN  format(enter(revoke(storage(enter(createFormat(createStorage(
            deps(enter(g)))))))))

\* from the first monitor command to ret = 0; every step that fails jumps
\* to the cleanup label
CreateSteps(g, o) ==
    LET enter(t) == IF t.rc < 0 THEN t ELSE qemuDomainObjEnterMonitorAsync(t)
        deps(t) == IF t.rc < 0 THEN t ELSE CreateApplyDeps(t)
        createStorage(t) ==
            IF t.rc < 0 THEN t ELSE qemuBlockStorageSourceCreateStorage(t, o)
        storage(t) == IF t.rc < 0 THEN t ELSE CreateApplyStorage(t)
        createFormat(t) ==
            IF t.rc < 0 THEN t ELSE qemuBlockStorageSourceCreateFormat(t, o)
        revoke(t) == IF t.rc < 0 THEN t ELSE CreateRevoke(t, o)
        format(t) == IF t.rc < 0 THEN t ELSE CreateApplyFormat(t)
    IN  format(enter(revoke(createFormat(storage(enter(createStorage(
            deps(enter(g)))))))))

\* the rollback of the cleanup label: the monitor is entered for it
CreateRollback(e) ==
    IF e.rc < 0 THEN e
    ELSE qemuDomainObjExitMonitor(qemuBlockStorageSourceAttachRollback(e))

\* cleanup: the attached part is rolled back when the function fails and
\* the domain is still active
StorageSourceCreateCleanup(r) ==
    IF r.rc < 0 /\ virDomainObjIsActive(r)
    THEN [CreateRollback(qemuDomainObjEnterMonitorAsync(r)) EXCEPT !.rc = -1]
    ELSE r

qemuBlockStorageSourceCreate(s, o) ==
    LET run(g) == IF g.rc < 0 THEN g
                  ELSE StorageSourceCreateCleanup(CreateSteps(g, o))
    IN  IF o.sliceStorage
        THEN [s EXCEPT !.rc = -1, !.err = Cmd("create-slice", NULL)]
        ELSE run(CreateGrant(s, o))

(***************************************************************************)
(* Dirty bitmaps.  A chain is the sequence of its layers from the top      *)
(* down; a virStorageSource pointer is the position of the layer in the    *)
(* chain, Len + 1 the chain terminator, 0 a NULL pointer and ExternalImage *)
(* an image outside the chain.  nodedata[k] is the list of the bitmaps of  *)
(* layer k as qemuMonitorBlockGetNamedNodeData reports it; an image        *)
(* without entry has no bitmaps.                                           *)
(***************************************************************************)
ExternalImage == -1

NoBitmap ==
    [ name |-> "", recording |-> FALSE, persistent |-> FALSE,
      inconsistent |-> FALSE, granularity |-> 0 ]

\* the name of the node of image k that exposes the guest visible data
BitmapNodename(k) ==
    IF k = ExternalImage THEN Id("format", 0, 0) ELSE Id("format", k, 0)

\* virStorageSourceIsBacking: the image is a layer, not the chain terminator
virStorageSourceIsBacking(data, n) == n \in 1..Len(data)

\* virHashLookup(blockNamedNodeData, effective node name of the image)
NodeBitmaps(data, k) == IF k \in 1..Len(data) THEN data[k] ELSE <<>>

\* the first bitmap of that name in the list
FirstBitmapByName(bitmaps, name) ==
    LET idx == { i \in DOMAIN bitmaps : bitmaps[i].name = name }
    IN  IF idx = {} THEN NoBitmap
        ELSE bitmaps[CHOOSE i \in idx : \A j \in idx : i <= j]

qemuBlockNamedNodeDataGetBitmapByName(data, k, name) ==
    FirstBitmapByName(NodeBitmaps(data, k), name)

\* the loop of qemuBlockBitmapChainIsValid from layer n on
RECURSIVE BitmapChainIsValidFrom(_, _, _, _, _)
BitmapChainIsValidFrom(data, n, bitmapname, found, chain_ended) ==
    IF ~virStorageSourceIsBacking(data, n)
    THEN found
    ELSE LET bitmap == qemuBlockNamedNodeDataGetBitmapByName(data, n, bitmapname)
         IN  IF bitmap = NoBitmap
             THEN IF ~found
                  THEN FALSE
                  ELSE BitmapChainIsValidFrom(data, n + 1, bitmapname, found, TRUE)
             ELSE IF chain_ended
             THEN FALSE
             ELSE IF bitmap.inconsistent \/ ~bitmap.persistent
                     \/ ~bitmap.recording
             THEN FALSE
             ELSE BitmapChainIsValidFrom(data, n + 1, bitmapname, TRUE,
                                         chain_ended)

\* mutant: a bitmap that reappears below a layer without it is accepted
BitmapChainIsValid_Gaps(data, src, bitmapname) ==
    /\ qemuBlockNamedNodeDataGetBitmapByName(data, src, bitmapname) # NoBitmap
    /\ \A n \in src..Len(data) :
          LET bitmap == qemuBlockNamedNodeDataGetBitmapByName(data, n, bitmapname)
          IN  bitmap # NoBitmap =>
                 ~(bitmap.inconsistent \/ ~bitmap.persistent \/ ~bitmap.recording)

qemuBlockBitmapChainIsValid(data, src, bitmapname) ==
    BitmapChainIsValidFrom(data, src, bitmapname, FALSE, FALSE)

(***************************************************************************)
(* qemuBlockGetBitmapMergeActions.  The arguments are the record a:        *)
(* data (blockNamedNodeData), topsrc, basesrc (0: NULL), target,           *)
(* bitmapname and dstbitmapname ("": NULL), writebitmapsrc (0: NULL) and   *)
(* fail, the builder of transaction actions that fails ("none": none).     *)
(* The result under construction is the record m: rc, act (the actions),   *)
(* merge (the merge sources of the current bitmap) and granularity.        *)
(***************************************************************************)
TmpActiveWriteName == "libvirt-tmp-activewrite"

NewMerge == [ rc |-> 0, act |-> <<>>, merge |-> <<>>, granularity |-> 0 ]

BitmapAction(type, node, name) ==
    [ type |-> type, node |-> node, name |-> name, persistent |-> FALSE,
      disabled |-> FALSE, granularity |-> 0, sources |-> <<>> ]

\* qemuMonitorTransactionBitmapAdd(act, node, name, persistent, disabled,
\* granularity)
TransactionBitmapAdd(a, m, node, name, persistent, disabled) ==
    IF a.fail = "add"
    THEN [m EXCEPT !.rc = -1]
    ELSE [m EXCEPT !.act = Append(@,
              [BitmapAction("bitmap-add", node, name) EXCEPT
                  !.persistent = persistent, !.disabled = disabled,
                  !.granularity = m.granularity])]

\* qemuMonitorTransactionBitmapMergeSourceAddBitmap(merge, node, name)
TransactionBitmapMergeSourceAddBitmap(a, m, node, name) ==
    IF a.fail = "source"
    THEN [m EXCEPT !.rc = -1]
    ELSE [m EXCEPT !.merge = Append(@, <<node, name>>)]

\* qemuMonitorTransactionBitmapMerge(act, node, name, &merge)
TransactionBitmapMerge(a, m, node, name) ==
    IF a.fail = "merge"
    THEN [m EXCEPT !.rc = -1]
    ELSE [m EXCEPT !.act = Append(@,
              [BitmapAction("bitmap-merge", node, name) EXCEPT
                  !.sources = m.merge])]

\* qemuMonitorTransactionBitmapRemove(act, node, name)
TransactionBitmapRemove(a, m, node, name) ==
    IF a.fail = "remove"
    THEN [m EXCEPT !.rc = -1]
    ELSE [m EXCEPT !.act = Append(@, BitmapAction("bitmap-remove", node, name))]

\* the loop of qemuBlockGetBitmapMergeActionsGetBitmaps over the bitmaps of
\* the top layer; every accepted name is prepended to the list
RECURSIVE MergeActionsGetBitmapsFrom(_, _, _)
MergeActionsGetBitmapsFrom(a, i, names) ==
    IF i > Len(NodeBitmaps(a.data, a.topsrc))
    THEN names
    ELSE LET name == NodeBitmaps(a.data, a.topsrc)[i].name
         IN  IF a.bitmapname # "" /\ a.bitmapname # name
             THEN MergeActionsGetBitmapsFrom(a, i + 1, names)
             ELSE IF ~qemuBlockBitmapChainIsValid(a.data, a.topsrc, name)
             THEN MergeActionsGetBitmapsFrom(a, i + 1, names)
             ELSE MergeActionsGetBitmapsFrom(a, i + 1, <<name>> \o names)

\* mutant: the bitmaps of the top layer are taken as they are
MergeActionsGetBitmaps_Unchecked(a) ==
    LET entry == NodeBitmaps(a.data, a.topsrc)
        all == [i \in DOMAIN entry |-> entry[Len(entry) + 1 - i].name]
    IN  SelectSeq(all, LAMBDA name : a.bitmapname \in {"", name})

qemuBlockGetBitmapMergeActionsGetBitmaps(a) ==
    MergeActionsGetBitmapsFrom(a, 1, <<>>)

\* for (n = topsrc; virStorageSourceIsBacking(n) && n != basesrc; ...)
RECURSIVE MergeSourcesFrom(_, _, _, _)
MergeSourcesFrom(a, n, curbitmap, m) ==
    IF m.rc < 0 \/ ~virStorageSourceIsBacking(a.data, n) \/ n = a.basesrc
    THEN m
    ELSE LET bitmap == qemuBlockNamedNodeDataGetBitmapByName(a.data, n,
                                                             curbitmap)
         IN  IF bitmap = NoBitmap
             THEN MergeSourcesFrom(a, n + 1, curbitmap, m)
             ELSE MergeSourcesFrom(a, n + 1, curbitmap,
                      TransactionBitmapMergeSourceAddBitmap(a,
                          [m EXCEPT !.granularity =
                              IF @ = 0 THEN bitmap.granularity ELSE @],
                          BitmapNodename(n), bitmap.name))

\* mutant: the walk does not stop at basesrc
MergeSources_BelowBase(a, curbitmap, m) ==
    MergeSourcesFrom([a EXCEPT !.basesrc = 0], a.topsrc, curbitmap, m)

\* the merge sources of curbitmap, from topsrc down
MergeSources(a, curbitmap, m) ==
    MergeSourcesFrom(a, a.topsrc, curbitmap, m)

\* the name of the bitmap the merge goes into
MergeBitmapName(a, curbitmap) ==
    IF a.dstbitmapname = "" THEN curbitmap ELSE a.dstbitmapname

\* mutant: the destination bitmap is added whether the target has it or not
MergeAdd_Always(a, curbitmap, m) ==
    IF m.rc < 0
    THEN m
    ELSE TransactionBitmapAdd(a, m, BitmapNodename(a.target),
             MergeBitmapName(a, curbitmap),
             a.dstbitmapname = "", a.dstbitmapname # "")

\* if (dstbitmapname || !(target has curbitmap)) bitmap-add
MergeAdd(a, curbitmap, m) ==
    IF m.rc < 0
    THEN m
    ELSE IF \/ a.dstbitmapname # ""
            \/ qemuBlockNamedNodeDataGetBitmapByName(a.data, a.target,
                                                     curbitmap) = NoBitmap
    THEN TransactionBitmapAdd(a, m, BitmapNodename(a.target),
             MergeBitmapName(a, curbitmap),
             a.dstbitmapname = "", a.dstbitmapname # "")
    ELSE m

\* mutant: the transient bitmap joins only a merge that has sources
MergeWrite_OnlyWithSources(a, m) ==
    IF m.rc < 0 \/ a.writebitmapsrc = 0 \/ m.merge = <<>>
    THEN m
    ELSE TransactionBitmapMergeSourceAddBitmap(a, m,
             BitmapNodename(a.writebitmapsrc), TmpActiveWriteName)

\* if (writebitmapsrc && merge source of the transient bitmap)
MergeWrite(a, m) ==
    IF m.rc < 0 \/ a.writebitmapsrc = 0
    THEN m
    ELSE TransactionBitmapMergeSourceAddBitmap(a, m,
             BitmapNodename(a.writebitmapsrc), TmpActiveWriteName)

\* the bitmap-merge action of curbitmap
MergeMerge(a, curbitmap, m) ==
    IF m.rc < 0
    THEN m
    ELSE TransactionBitmapMerge(a, m, BitmapNodename(a.target),
                                MergeBitmapName(a, curbitmap))

\* one round of the loop over the bitmaps
MergeOne(a, curbitmap, m) ==
    MergeMerge(a, curbitmap,
        MergeWrite(a,
            MergeAdd(a, curbitmap,
                MergeSources(a, curbitmap,
                    [m EXCEPT !.merge = <<>>, !.granularity = 0]))))

RECURSIVE MergeBitmapsFrom(_, _, _, _)
MergeBitmapsFrom(a, bitmaps, i, m) ==
    IF i > Len(bitmaps) \/ m.rc < 0
    THEN m
    ELSE MergeBitmapsFrom(a, bitmaps, i + 1, MergeOne(a, bitmaps[i], m))

\* done: the transient bitmap is removed
MergeDone(a, m) ==
    IF m.rc < 0 \/ a.writebitmapsrc = 0
    THEN m
    ELSE TransactionBitmapRemove(a, m, BitmapNodename(a.writebitmapsrc),
                                 TmpActiveWriteName)

\* rc and *actions; actions stay unset (<<>>) on failure and when empty
MergeResult(m) ==
    [ rc |-> m.rc, actions |-> IF m.rc < 0 THEN <<>> ELSE m.act ]

qemuBlockGetBitmapMergeActions(a) ==
    MergeResult(MergeDone(a,
        MergeBitmapsFrom(a, qemuBlockGetBitmapMergeActionsGetBitmaps(a), 1,
                         NewMerge)))

NoArgs ==
    [ data |-> <<>>, topsrc |-> 1, basesrc |-> 0, target |-> ExternalImage,
      bitmapname |-> "", dstbitmapname |-> "", writebitmapsrc |-> 0,
      fail |-> "none" ]

NoCall == [ op |-> "none", a |-> NoArgs, valid |-> FALSE, rc |-> 0,
            actions |-> <<>>, format |-> "none", flags |-> {} ]

\* qemuBlockBitmapsHandleBlockcopy: the bitmaps of the disk source src are
\* merged into the mirror, whose temporary bitmap of the writes is merged
\* along and removed; the backing store of layer src is layer src + 1
qemuBlockBitmapsHandleBlockcopy(data, src, mirror, format, shallow) ==
    IF format = "raw"
    THEN [ rc |-> 0, actions |-> <<>> ]
    ELSE qemuBlockGetBitmapMergeActions(
             [NoArgs EXCEPT !.data = data, !.topsrc = src,
                            !.basesrc = IF shallow THEN src + 1 ELSE 0,
                            !.target = mirror, !.writebitmapsrc = mirror])

\* qemuBlockBitmapsHandleCommitFinish: the bitmaps of the layers from topsrc
\* down to basesrc are merged into basesrc, an image of the given format
qemuBlockBitmapsHandleCommitFinish(data, topsrc, basesrc, format, active) ==
    IF format = "raw"
    THEN [ rc |-> 0, actions |-> <<>> ]
    ELSE qemuBlockGetBitmapMergeActions(
             [NoArgs EXCEPT !.data = data, !.topsrc = topsrc,
                            !.basesrc = basesrc, !.target = basesrc,
                            !.writebitmapsrc = IF active THEN basesrc ELSE 0])

(***************************************************************************)
(* Inputs of the bitmap functions                                          *)
(***************************************************************************)
BitmapNames == {"a", "b"}

Bitmap(name, recording, persistent, inconsistent, granularity) ==
    [ name |-> name, recording |-> recording, persistent |-> persistent,
      inconsistent |-> inconsistent, granularity |-> granularity ]

\* bitmap "a" of a layer: missing, sound with one of two granularities, or
\* not recording, not persistent or inconsistent
LayerBitmapsA ==
    { <<>>,
      << Bitmap("a", TRUE, TRUE, FALSE, 1) >>,
      << Bitmap("a", TRUE, TRUE, FALSE, 2) >>,
      << Bitmap("a", FALSE, TRUE, FALSE, 1) >>,
      << Bitmap("a", TRUE, FALSE, FALSE, 1) >>,
      << Bitmap("a", TRUE, TRUE, TRUE, 1) >> }

\* chains of up to MaxBitmapLayers layers; the top layer may carry a second
\* bitmap "b"
BitmapChains ==
    UNION { { [k \in 1..n |->
                  la[k] \o (IF k = 1 /\ topB
                            THEN << Bitmap("b", TRUE, TRUE, FALSE, 1) >>
                            ELSE <<>>)] :
              la \in [1..n -> LayerBitmapsA], topB \in BOOLEAN } :
            n \in 0..MaxBitmapLayers }

\* builder failures are inputs of the merge of a whole chain into an
\* image outside of it
MergeFailures(basesrc, target, bitmapname) ==
    IF basesrc = 0 /\ target = ExternalImage /\ bitmapname = ""
    THEN {"none", "source", "add", "merge", "remove"}
    ELSE {"none"}

\* the target is an image outside the chain, the top layer or the base, as
\* the callers of a block copy, a backup and a commit have it
MergeTargets(data, basesrc) ==
    {ExternalImage} \cup ({1, basesrc} \cap (1..Len(data)))

MergeArgs(data) ==
    { a \in [ data : {data}, topsrc : {1}, basesrc : 0..Len(data),
              target : {ExternalImage} \cup (1..Len(data)),
              bitmapname : {"", "a"}, dstbitmapname : {"", "dst"},
              writebitmapsrc : {0, 1},
              fail : {"none", "source", "add", "merge", "remove"} ] :
        /\ a.target \in MergeTargets(data, a.basesrc)
        /\ a.fail \in MergeFailures(a.basesrc, a.target, a.bitmapname) }

(***************************************************************************)
(* JSON values (virjson.c).  A value is a tagged tuple: a string, a number,*)
(* a boolean, null, an array <<"array", elements>> or an object            *)
(* <<"object", pairs>> whose pairs are <<key, value>> in the order of the  *)
(* object's pair array.  NoValue is a NULL pointer.                        *)
(***************************************************************************)
NoValue == <<"NULL">>
JStr(x) == <<"string", x>>
JNum(n) == <<"number", n>>
JBool(b) == <<"boolean", b>>
JNull == <<"null", "null">>
JArray(elems) == <<"array", elems>>
JObject(pairs) == <<"object", pairs>>

\* virJSONValueNewObject
virJSONValueNewObject == JObject(<<>>)

Pairs(object) == object[2]

\* virJSONValueObjectHasKey
virJSONValueObjectHasKey(object, key) ==
    /\ object[1] = "object"
    /\ \E i \in DOMAIN Pairs(object) : Pairs(object)[i][1] = key

\* virJSONValueObjectGet: the value of the first pair of the key, or NULL
virJSONValueObjectGet(object, key) ==
    IF ~virJSONValueObjectHasKey(object, key) THEN NoValue
    ELSE Pairs(object)[CHOOSE i \in DOMAIN Pairs(object) :
                          /\ Pairs(object)[i][1] = key
                          /\ \A j \in 1..(i - 1) : Pairs(object)[j][1] # key][2]

\* virJSONValueArraySize and virJSONValueArrayGet (elements count from 1)
virJSONValueArraySize(array) == Len(array[2])

virJSONValueArrayGet(array, element) ==
    IF array[1] # "array" THEN NoValue
    ELSE IF element > Len(array[2]) THEN NoValue
    ELSE array[2][element]

\* virJSONValueObjectInsert(object, key, &value, prepend): the result is the
\* return value, the object and the caller's pointer after the call
virJSONValueObjectInsert(object, key, value, prepend) ==
    IF object[1] # "object"
    THEN [ rc |-> -1, object |-> object, value |-> value ]
    ELSE IF virJSONValueObjectHasKey(object, key)
    THEN [ rc |-> -1, object |-> object, value |-> value ]
    ELSE IF prepend
    THEN [ rc |-> 0, object |-> JObject(<< <<key, value>> >> \o Pairs(object)),
           value |-> NoValue ]
    ELSE [ rc |-> 0, object |-> JObject(Append(Pairs(object), <<key, value>>)),
           value |-> NoValue ]

\* mutant: a pair is appended whether or not the key is present
ObjectAppend_NoDuplicateCheck(object, key, value) ==
    [ rc |-> 0, object |-> JObject(Append(Pairs(object), <<key, value>>)),
      value |-> NoValue ]

virJSONValueObjectAppend(object, key, value) ==
    virJSONValueObjectInsert(object, key, value, FALSE)

\* virJSONValueObjectPrependString
virJSONValueObjectPrependString(object, key, value) ==
    virJSONValueObjectInsert(object, key, JStr(value), TRUE)

\* virJSONValueObjectRemoveKey(object, key, &value): 1 and the dropped value
\* when the key was found, 0 when it was not
RECURSIVE RemoveKeyFrom(_, _, _)
RemoveKeyFrom(object, key, i) ==
    IF i > Len(Pairs(object))
    THEN [ rc |-> 0, object |-> object, value |-> NoValue ]
    ELSE IF Pairs(object)[i][1] = key
    THEN [ rc |-> 1,
           object |-> JObject(SubSeq(Pairs(object), 1, i - 1)
                              \o SubSeq(Pairs(object), i + 1,
                                        Len(Pairs(object)))),
           value |-> Pairs(object)[i][2] ]
    ELSE RemoveKeyFrom(object, key, i + 1)

virJSONValueObjectRemoveKey(object, key) ==
    IF object[1] # "object"
    THEN [ rc |-> -1, object |-> object, value |-> NoValue ]
    ELSE RemoveKeyFrom(object, key, 1)

(***************************************************************************)
(* virJSONValueObjectAddVArgs.  An argument is <<type code, key, value>>;  *)
(* the value of a string, object or array argument may be NoValue (NULL),  *)
(* a tristate is "absent", "yes" or "no", an argument of code n has no     *)
(* value.  The result is the return value, *objptr after the call and, for *)
(* every a/A argument, the caller's pointer after the call (left).        *)
(***************************************************************************)
Arg(code, key, value) == <<code, key, value>>

\* one argument: "skip" when it is omitted, "error" when it is refused, or
\* the value that is appended
ArgValue(arg) ==
    LET type == arg[1]
        val == arg[3]
    IN  CASE type \in {"s", "a", "m"} ->
                IF val = NoValue THEN "error" ELSE "append"
          [] type \in {"S", "A", "M"} ->
                IF val = NoValue THEN "skip" ELSE "append"
          [] type \in {"j", "J"} -> IF val[2] < 0 THEN "error" ELSE "append"
          [] type \in {"k", "K"} -> IF val[2] < 0 THEN "skip" ELSE "append"
          [] type \in {"z", "Z", "p", "P"} ->
                IF val[2] = 0 THEN "skip" ELSE "append"
          [] type \in {"y", "Y"} ->
                IF val[2] < 0 THEN "error"
                ELSE IF val[2] = 0 THEN "skip" ELSE "append"
          [] type = "B" -> IF val[2] THEN "append" ELSE "skip"
          [] type = "T" -> IF val = "absent" THEN "skip" ELSE "append"
          [] type \in {"i", "I", "u", "U", "b", "d", "n"} -> "append"
          [] OTHER -> "error"

\* the JSON value an argument appends
ArgJSON(arg) ==
    IF arg[1] = "T" THEN JBool(arg[3] = "yes")
    ELSE IF arg[1] = "n" THEN JNull
    ELSE arg[3]

RECURSIVE AddVArgsFrom(_, _, _, _)
AddVArgsFrom(obj, args, i, left) ==
    IF i > Len(args) \/ args[i] = NoValue
    THEN [ rc |-> IF Pairs(obj) = <<>> THEN 0 ELSE 1, obj |-> obj,
           left |-> left ]
    ELSE IF ArgValue(args[i]) = "error"
    THEN [ rc |-> -1, obj |-> obj, left |-> left ]
    ELSE IF ArgValue(args[i]) = "skip"
    THEN AddVArgsFrom(obj, args, i + 1, left)
    ELSE LET r == virJSONValueObjectAppend(obj, args[i][2], ArgJSON(args[i]))
         IN  IF r.rc < 0
             THEN [ rc |-> -1, obj |-> obj, left |-> left ]
             ELSE AddVArgsFrom(r.object, args, i + 1,
                               IF args[i][1] \in {"a", "A"}
                               THEN [left EXCEPT ![i] = NoValue] ELSE left)

\* virJSONValueObjectAdd(&obj, ...): a new object is made when *objptr is
\* NULL and stored only when the call succeeds with a pair in it; an
\* object that exists keeps the pairs appended before an error
virJSONValueObjectAdd(objptr, args) ==
    LET new == objptr = NoValue
        store(r) ==
            IF new /\ r.rc # 1 THEN [r EXCEPT !.obj = NoValue] ELSE r
    IN  store(AddVArgsFrom(IF new THEN virJSONValueNewObject ELSE objptr,
                           args, 1, [i \in DOMAIN args |-> args[i][3]]))

(***************************************************************************)
(* virStorageSource as the property builders read it.  A char pointer is   *)
(* NoValue (NULL) or JStr(text).                                           *)
(*   type, protocol : actual storage type and network protocol             *)
(*   hosts : the host list, each [name, port, transport, socket]           *)
(*   auth : the layer has authentication (src->auth with secinfo)          *)
(*   cookies : the layer has cookies in its definition                     *)
(*   httpcookie, tlsAlias, tlsHostname, pr, fdpass, nbdkit : private data  *)
(*   encryption : "none", "qemu" or "librbd"; nsecrets its secrets         *)
(*   fdtuple : [nfds, writable], nfds = 0 when there is none               *)
(*   backing : whether the format can have a backing store                 *)
(***************************************************************************)
NoSlice == [ present |-> FALSE, nodename |-> NoValue ]

NoSource ==
    [ type |-> "file", protocol |-> "none", hosts |-> <<>>,
      path |-> JStr("/path"), auth |-> FALSE, cookies |-> FALSE,
      httpcookie |-> FALSE, tlsAlias |-> FALSE, tlsHostname |-> FALSE,
      encryption |-> "none", nsecrets |-> 0, nbdkit |-> FALSE,
      pr |-> FALSE, fdpass |-> FALSE,
      readonly |-> FALSE, fdtuple |-> [nfds |-> 0, writable |-> FALSE],
      discard |-> "default", detect_zeroes |-> "default",
      cachemode |-> "default",
      format |-> "raw", backing |-> FALSE, dataFileStore |-> FALSE,
      metadataCacheMaxSize |-> 0, discard_no_unref |-> "absent",
      encformat |-> "default", debug |-> FALSE, debugLevel |-> 0,
      nfs_uid |-> -1, nfs_gid |-> -1, sslverify |-> "absent",
      timeout |-> 0, readahead |-> 0, reconnectDelay |-> 0,
      snapshot |-> NoValue, configFile |-> NoValue, initiator |-> NoValue,
      ssh_user |-> NoValue, ssh_host_key_check_disabled |-> FALSE,
      iomode |-> "default", hostcdrom |-> FALSE, floppyimg |-> FALSE,
      nodenamestorage |-> NoValue, nodenameformat |-> NoValue,
      sliceStorage |-> NoSlice ]

\* the layers that can be given as backing store: none (NULL), the
\* terminator of a chain, and layers with and without node names
NoBackingStore == [present |-> FALSE, type |-> "none", src |-> NoSource]

BackingTerminator == [present |-> TRUE, type |-> "none", src |-> NoSource]

BackingLayer(src) == [present |-> TRUE, type |-> src.type, src |-> src]

\* the last call of a builder: its name, its flags, the layer given as
\* backing store and the result
NoOut == [ op |-> "none", flags |-> {}, backingStore |-> NoBackingStore,
           result |-> NoValue ]

\* the JSON object under test, the value the caller offers, and the last
\* operation on the object
NoJSON == [ object |-> virJSONValueNewObject, before |-> virJSONValueNewObject,
            op |-> "none", key |-> "", offered |-> NoValue, value |-> NoValue,
            args |-> <<>>, left |-> <<>>, rc |-> 0 ]

\* no thread is in qemuBlockStorageSourceCreateGeneric
NoCreateWait ==
    [ pc |-> "idle", state |-> "NONE", qemu |-> "none", errmsg |-> FALSE,
      rc |-> 0, err |-> "none", finalized |-> 0, waits |-> 0, rej |-> {} ]

\* the firewall chains were never set up and no thread calls the driver
NoFirewall ==
    [ lock |-> 0, chainInitDone |-> FALSE, errInitV4 |-> "NULL",
      errInitV6 |-> "NULL", setups |-> 0, unforced |-> 0, unlocked |-> {},
      dangling |-> FALSE, th |-> <<>> ]

(***************************************************************************)
(* Node names of a layer                                                   *)
(***************************************************************************)
\* qemuBlockStorageSourceSetStorageNodename
qemuBlockStorageSourceSetStorageNodename(src, nodename) ==
    [src EXCEPT !.nodenamestorage = nodename]

\* qemuBlockStorageSourceSetFormatNodename
qemuBlockStorageSourceSetFormatNodename(src, nodename) ==
    [src EXCEPT !.nodenameformat = nodename]

\* qemuBlockStorageSourceGetSliceNodename
qemuBlockStorageSourceGetSliceNodename(src) ==
    IF ~src.sliceStorage.present THEN NoValue ELSE src.sliceStorage.nodename

\* qemuBlockStorageSourceGetEffectiveStorageNodename
qemuBlockStorageSourceGetEffectiveStorageNodename(src) ==
    IF qemuBlockStorageSourceGetSliceNodename(src) # NoValue
    THEN qemuBlockStorageSourceGetSliceNodename(src)
    ELSE src.nodenamestorage

\* mutant: the storage node hides the slice node
EffectiveNodename_StorageFirst(src) ==
    IF src.nodenameformat # NoValue THEN src.nodenameformat
    ELSE IF src.nodenamestorage # NoValue THEN src.nodenamestorage
    ELSE qemuBlockStorageSourceGetSliceNodename(src)

\* qemuBlockStorageSourceGetEffectiveNodename
qemuBlockStorageSourceGetEffectiveNodename(src) ==
    IF src.nodenameformat # NoValue THEN src.nodenameformat
    ELSE qemuBlockStorageSourceGetEffectiveStorageNodename(src)

\* qemuBlockStorageSourceGetStorageNodename
qemuBlockStorageSourceGetStorageNodename(src) == src.nodenamestorage

\* qemuBlockStorageSourceGetFormatNodename
qemuBlockStorageSourceGetFormatNodename(src) == src.nodenameformat

(***************************************************************************)
(* Backend (storage / protocol) properties of a layer                      *)
(***************************************************************************)
\* the text of a string value
Text(v) == v[2]

\* names of the objects of the private data of a layer
SecinfoAlias == JStr("libvirt-1-storage-auth-secret0")
SecinfoUsername == JStr("user")
HttpcookieAlias == JStr("libvirt-1-storage-httpcookie-secret0")
TlsAlias == JStr("libvirt-1-storage-tls0")
TlsHostname == JStr("tls.example.org")
EncinfoAlias(i) == JStr("libvirt-1-format-encryption-secret" \o ToString(i))
PrManagerAlias == JStr("pr-helper0")
FDPassPath == JStr("/dev/fdset/0")
NbdkitSocket == JStr("/run/nbdkit.socket")
CookieString == JStr("cookie=value")

\* virStorageSourceNetworkProtocolPathSplit: the path "a/b" of a network
\* layer is split at its first slash; a path without slash fails for rbd
virStorageSourceNetworkProtocolPathSplit(path, protocol) ==
    IF path = JStr("pool/image")
    THEN [ rc |-> 0, pool |-> JStr("pool"), namespace |-> NoValue,
           image |-> IF protocol = "gluster" THEN JStr("/image")
                     ELSE JStr("image") ]
    ELSE [ rc |-> -1, pool |-> NoValue, namespace |-> NoValue,
           image |-> NoValue ]

\* g_path_is_absolute, over the paths of the layers of the model
g_path_is_absolute(path) ==
    path \in {JStr("/path"), JStr("/image"), JStr("/export")}

\* mutant: the URI names the first host of a list of any length
GetURI_FirstHost(src) ==
    IF Len(src.hosts) = 0 THEN NoValue
    ELSE JStr(src.protocol \o "://" \o Text(src.hosts[1].name)
              \o ":" \o ToString(src.hosts[1].port)
              \o "/" \o Text(src.path))

\* qemuBlockStorageSourceGetURI and virURIFormat: NoValue for a host count
\* other than one
qemuBlockStorageSourceGetURI(src) ==
    IF Len(src.hosts) # 1 THEN NoValue
    ELSE JStr((IF src.hosts[1].transport = "tcp" THEN src.protocol
               ELSE src.protocol \o "+" \o src.hosts[1].transport)
              \o "://" \o Text(src.hosts[1].name)
              \o (IF src.hosts[1].transport = "tcp"
                  THEN ":" \o ToString(src.hosts[1].port) ELSE "")
              \o (IF src.path = NoValue THEN ""
                  ELSE IF g_path_is_absolute(src.path) THEN Text(src.path)
                  ELSE "/" \o Text(src.path)))

\* qemuBlockStorageSourceBuildJSONSocketAddress
qemuBlockStorageSourceBuildJSONSocketAddress(host) ==
    IF host.transport = "tcp"
    THEN virJSONValueObjectAdd(NoValue,
             << Arg("s", "type", JStr("inet")), Arg("s", "host", host.name),
                Arg("s", "port", JStr(ToString(host.port))) >>).obj
    ELSE IF host.transport = "unix"
    THEN virJSONValueObjectAdd(NoValue,
             << Arg("s", "type", JStr("unix")),
                Arg("s", "path", host.socket) >>).obj
    ELSE NoValue

\* qemuBlockStorageSourceBuildJSONInetSocketAddress
qemuBlockStorageSourceBuildJSONInetSocketAddress(host) ==
    IF host.transport # "tcp" THEN NoValue
    ELSE virJSONValueObjectAdd(NoValue,
             << Arg("s", "host", host.name),
                Arg("s", "port", JStr(ToString(host.port))) >>).obj

\* qemuBlockStorageSourceBuildHostsJSONSocketAddress: every host of the
\* list, or NoValue when one of them cannot be formatted
qemuBlockStorageSourceBuildHostsJSONSocketAddress(src) ==
    IF \E i \in DOMAIN src.hosts :
          qemuBlockStorageSourceBuildJSONSocketAddress(src.hosts[i]) = NoValue
    THEN NoValue
    ELSE JArray([i \in DOMAIN src.hosts |->
                    qemuBlockStorageSourceBuildJSONSocketAddress(src.hosts[i])])

\* qemuBlockStorageSourceBuildHostsJSONInetSocketAddress
qemuBlockStorageSourceBuildHostsJSONInetSocketAddress(src) ==
    IF \E i \in DOMAIN src.hosts : src.hosts[i].transport # "tcp"
    THEN NoValue
    ELSE JArray([i \in DOMAIN src.hosts |->
                    qemuBlockStorageSourceBuildJSONInetSocketAddress(
                        src.hosts[i])])

\* qemuBlockStorageSourceGetGlusterProps
qemuBlockStorageSourceGetGlusterProps(src, onlytarget) ==
    LET servers == qemuBlockStorageSourceBuildHostsJSONSocketAddress(src)
        split == virStorageSourceNetworkProtocolPathSplit(src.path, "gluster")
        debug(props) ==
            IF ~onlytarget /\ src.debug
            THEN virJSONValueObjectAdd(props,
                     << Arg("u", "debug", JNum(src.debugLevel)) >>).obj
            ELSE props
    IN  IF servers = NoValue \/ split.rc < 0 THEN NoValue
        ELSE debug(virJSONValueObjectAdd(NoValue,
                 << Arg("s", "volume", split.pool),
                    Arg("s", "path", split.image),
                    Arg("a", "server", servers) >>).obj)

\* qemuBlockStorageSourceGetNFSProps (with qemuBlockStorageSourceBuildJSONNFSServer)
qemuBlockStorageSourceGetNFSProps(src) ==
    virJSONValueObjectAdd(NoValue,
        << Arg("a", "server",
               JObject(<< <<"host", src.hosts[1].name>>,
                          <<"type", JStr("inet")>> >>)),
           Arg("S", "path", src.path) >>
        \o (IF src.nfs_uid # -1
            THEN << Arg("i", "user", JNum(src.nfs_uid)) >> ELSE <<>>)
        \o (IF src.nfs_gid # -1
            THEN << Arg("i", "group", JNum(src.nfs_gid)) >> ELSE <<>>)).obj

\* qemuBlockStorageSourceGetCURLProps
qemuBlockStorageSourceGetCURLProps(src, onlytarget) ==
    IF qemuBlockStorageSourceGetURI(src) = NoValue THEN NoValue
    ELSE virJSONValueObjectAdd(NoValue,
        << Arg("s", "url", qemuBlockStorageSourceGetURI(src)),
           Arg("S", "username",
               IF ~onlytarget /\ src.auth THEN SecinfoUsername ELSE NoValue),
           Arg("S", "password-secret",
               IF ~onlytarget /\ src.auth THEN SecinfoAlias ELSE NoValue),
           Arg("T", "sslverify", src.sslverify),
           Arg("S", "cookie",
               IF onlytarget /\ src.cookies THEN CookieString ELSE NoValue),
           Arg("S", "cookie-secret",
               IF ~onlytarget /\ src.httpcookie THEN HttpcookieAlias
               ELSE NoValue),
           Arg("P", "timeout", JNum(src.timeout)),
           Arg("P", "readahead", JNum(src.readahead)) >>).obj

\* qemuBlockStorageSourceGetNbdkitProps
qemuBlockStorageSourceGetNbdkitProps(src) ==
    IF ~src.nbdkit THEN NoValue
    ELSE virJSONValueObjectAdd(NoValue,
        << Arg("a", "server",
               qemuBlockStorageSourceBuildJSONSocketAddress(
                   [ name |-> NoValue, port |-> 0, transport |-> "unix",
                     socket |-> NbdkitSocket, inet6 |-> FALSE ])) >>).obj

\* the target and the lun of the path of an iSCSI layer: "target/lun"
\* with a numeric lun, or "target" alone
ISCSITarget(path) ==
    IF path = JStr("iqn.2017-04.com.example:disks/1")
    THEN [ rc |-> 0, target |-> JStr("iqn.2017-04.com.example:disks"),
           lun |-> 1 ]
    ELSE IF path = JStr("iqn.2017-04.com.example:disks/x")
    THEN [ rc |-> -1, target |-> NoValue, lun |-> 0 ]
    ELSE [ rc |-> 0, target |-> path, lun |-> 0 ]

\* qemuBlockStorageSourceGetISCSIProps
qemuBlockStorageSourceGetISCSIProps(src, onlytarget) ==
    IF Len(src.hosts) # 1 \/ ISCSITarget(src.path).rc < 0 THEN NoValue
    ELSE virJSONValueObjectAdd(NoValue,
        << Arg("s", "portal",
               JStr((IF src.hosts[1].inet6
                     THEN "[" \o Text(src.hosts[1].name) \o "]"
                     ELSE Text(src.hosts[1].name))
                    \o ":" \o ToString(src.hosts[1].port))),
           Arg("s", "target", ISCSITarget(src.path).target),
           Arg("u", "lun", JNum(ISCSITarget(src.path).lun)),
           Arg("s", "transport", JStr("tcp")),
           Arg("S", "user",
               IF ~onlytarget /\ src.auth THEN SecinfoUsername ELSE NoValue),
           Arg("S", "password-secret",
               IF ~onlytarget /\ src.auth THEN SecinfoAlias ELSE NoValue),
           Arg("S", "initiator-name", src.initiator) >>).obj

\* qemuBlockStorageSourceGetNBDProps
qemuBlockStorageSourceGetNBDProps(src, onlytarget) ==
    IF Len(src.hosts) # 1 THEN NoValue
    ELSE IF qemuBlockStorageSourceBuildJSONSocketAddress(src.hosts[1])
               = NoValue
    THEN NoValue
    ELSE virJSONValueObjectAdd(NoValue,
        << Arg("a", "server",
               qemuBlockStorageSourceBuildJSONSocketAddress(src.hosts[1])),
           Arg("S", "export", src.path),
           Arg("S", "tls-creds",
               IF ~onlytarget /\ src.tlsAlias THEN TlsAlias ELSE NoValue),
           Arg("S", "tls-hostname",
               IF ~onlytarget /\ src.tlsHostname THEN TlsHostname
               ELSE NoValue),
           Arg("p", "reconnect-delay", JNum(src.reconnectDelay)) >>).obj

\* the name of the encryption format of an rbd layer, NULL for a format
\* librbd does not have
RBDEncFormat(format) ==
    IF format \in {"luks", "luks2", "luks-any"} THEN JStr(format)
    ELSE NoValue

\* the encrypt object of an rbd layer: one level per secret, the level of
\* the first secret outermost
RECURSIVE RBDEncrypt(_, _, _)
RBDEncrypt(src, i, encrypt) ==
    IF i = 0 \/ encrypt.rc < 0 THEN encrypt
    ELSE RBDEncrypt(src, i - 1,
             virJSONValueObjectAdd(NoValue,
                 << Arg("s", "format", RBDEncFormat(src.encformat)),
                    Arg("s", "key-secret", EncinfoAlias(i - 1)),
                    Arg("A", "parent", encrypt.obj) >>))

\* qemuBlockStorageSourceGetRBDProps
qemuBlockStorageSourceGetRBDProps(src, onlytarget) ==
    LET split == virStorageSourceNetworkProtocolPathSplit(src.path, "rbd")
        servers == IF Len(src.hosts) > 0
                   THEN qemuBlockStorageSourceBuildHostsJSONInetSocketAddress(src)
                   ELSE NoValue
        encrypt == IF src.encryption = "librbd"
                   THEN RBDEncrypt(src, src.nsecrets,
                                   [rc |-> 0, obj |-> NoValue])
                   ELSE [rc |-> 0, obj |-> NoValue]
    IN  IF split.rc < 0 \/ (Len(src.hosts) > 0 /\ servers = NoValue)
           \/ encrypt.rc < 0
        THEN NoValue
        ELSE virJSONValueObjectAdd(NoValue,
            << Arg("s", "pool", split.pool),
               Arg("S", "namespace", split.namespace),
               Arg("s", "image", split.image),
               Arg("S", "snapshot", src.snapshot),
               Arg("S", "conf", src.configFile),
               Arg("A", "server", servers),
               Arg("A", "encrypt", encrypt.obj),
               Arg("S", "user",
                   IF ~onlytarget /\ src.auth THEN SecinfoUsername
                   ELSE NoValue),
               Arg("A", "auth-client-required",
                   IF ~onlytarget /\ src.auth
                   THEN JArray(<<JStr("cephx"), JStr("none")>>) ELSE NoValue),
               Arg("S", "key-secret",
                   IF ~onlytarget /\ src.auth THEN SecinfoAlias
                   ELSE NoValue) >>).obj

\* qemuBlockStorageSourceGetSshProps
qemuBlockStorageSourceGetSshProps(src) ==
    IF Len(src.hosts) # 1 THEN NoValue
    ELSE IF src.hosts[1].transport # "tcp" THEN NoValue
    ELSE virJSONValueObjectAdd(NoValue,
        << Arg("s", "path", src.path),
           Arg("a", "server",
               qemuBlockStorageSourceBuildJSONInetSocketAddress(src.hosts[1])),
           Arg("S", "user",
               IF src.auth THEN SecinfoUsername ELSE src.ssh_user),
           Arg("A", "host-key-check",
               IF src.ssh_host_key_check_disabled
               THEN JObject(<< <<"mode", JStr("none")>> >>)
               ELSE NoValue) >>).obj

\* qemuBlockStorageSourceGetFileProps
qemuBlockStorageSourceGetFileProps(src, onlytarget) ==
    virJSONValueObjectAdd(NoValue,
        << Arg("s", "filename",
               IF ~onlytarget /\ src.fdpass THEN FDPassPath ELSE src.path),
           Arg("S", "aio",
               IF ~onlytarget /\ src.iomode # "default"
               THEN JStr(src.iomode) ELSE NoValue),
           Arg("S", "pr-manager",
               IF ~onlytarget /\ src.pr THEN PrManagerAlias
               ELSE NoValue) >>).obj

\* qemuBlockStorageSourceGetVvfatProps
qemuBlockStorageSourceGetVvfatProps(src, onlytarget) ==
    virJSONValueObjectAdd(NoValue,
        << Arg("s", "driver", JStr("vvfat")), Arg("s", "dir", src.path),
           Arg("b", "floppy", JBool(src.floppyimg)) >>
        \o (IF onlytarget THEN <<>>
            ELSE << Arg("b", "rw", JBool(~src.readonly)) >>)).obj

\* qemuBlockStorageSourceGetNVMeProps
qemuBlockStorageSourceGetNVMeProps(src) ==
    virJSONValueObjectAdd(NoValue,
        << Arg("s", "driver", JStr("nvme")),
           Arg("s", "device", JStr("0000:01:00.0")),
           Arg("U", "namespace", JNum(1)) >>).obj

\* qemuBlockStorageSourceGetVhostVdpaProps
qemuBlockStorageSourceGetVhostVdpaProps(src) ==
    virJSONValueObjectAdd(NoValue,
        << Arg("s", "driver", JStr("virtio-blk-vhost-vdpa")),
           Arg("s", "path", FDPassPath) >>).obj

\* qemuDomainDiskCachemodeFlags: whether the cache mode sets flags, and
\* the flags
qemuDomainDiskCachemodeFlags(cachemode) ==
    [ set |-> cachemode # "default",
      direct |-> cachemode \in {"none", "directsync"},
      noflush |-> cachemode = "unsafe" ]

\* qemuBlockStorageSourceGetBlockdevGetCacheProps
qemuBlockStorageSourceGetBlockdevGetCacheProps(src) ==
    IF ~qemuDomainDiskCachemodeFlags(src.cachemode).set THEN NoValue
    ELSE virJSONValueObjectAdd(NoValue,
        << Arg("b", "direct",
               JBool(qemuDomainDiskCachemodeFlags(src.cachemode).direct)),
           Arg("b", "no-flush",
               JBool(qemuDomainDiskCachemodeFlags(src.cachemode).noflush))
        >>).obj

\* virDomainDiskGetDetectZeroesMode: "unmap" needs discard "unmap"
virDomainDiskGetDetectZeroesMode(discard, detect_zeroes) ==
    IF detect_zeroes = "unmap" /\ discard # "unmap" THEN "on"
    ELSE detect_zeroes

\* qemuBlockNodeNameValidate: a name of the size of qemu's buffer and more
\* is refused
LongNodeName == JStr("libvirt-1-storage-name-too-long-for-qemu")

qemuBlockNodeNameValidate(nn) ==
    IF nn = NoValue THEN 0 ELSE IF nn = LongNodeName THEN -1 ELSE 0

virTristateBoolFromBool(b) == IF b THEN "yes" ELSE "no"

\* the read-only and auto-read-only values of an internal layer
CommonReadOnly(src) ==
    IF src.type \in {"file", "block"} /\ src.fdtuple.nfds = 1
    THEN [ autoReadOnly |-> "absent",
           readOnly |-> IF src.fdtuple.writable THEN "no"
                        ELSE virTristateBoolFromBool(src.readonly) ]
    ELSE [ autoReadOnly |-> "yes", readOnly |-> "absent" ]

\* mutant: a descriptor that is not writable keeps auto-read-only
CommonProps_AutoUnlessWritable(props, src, nodename, effective) ==
    virJSONValueObjectAdd(props,
        << Arg("s", "node-name", nodename),
           Arg("T", "read-only",
               IF effective THEN virTristateBoolFromBool(src.readonly)
               ELSE IF src.type \in {"file", "block"}
                       /\ src.fdtuple.nfds = 1 /\ src.fdtuple.writable
               THEN "no" ELSE "absent"),
           Arg("T", "auto-read-only",
               IF effective THEN "absent"
               ELSE IF src.type \in {"file", "block"}
                       /\ src.fdtuple.nfds = 1 /\ src.fdtuple.writable
               THEN "absent" ELSE "yes"),
           Arg("S", "discard",
               IF ~effective THEN JStr("unmap")
               ELSE IF src.discard # "default" THEN JStr(src.discard)
               ELSE NoValue),
           Arg("S", "detect-zeroes", NoValue),
           Arg("A", "cache",
               qemuBlockStorageSourceGetBlockdevGetCacheProps(src)) >>)

\* qemuBlockStorageSourceAddBlockdevCommonProps(&props, src, nodename,
\* effective): the return value and the props
qemuBlockStorageSourceAddBlockdevCommonProps(props, src, nodename, effective) ==
    IF qemuBlockNodeNameValidate(nodename) < 0
    THEN [ rc |-> -1, obj |-> props, left |-> <<>> ]
    ELSE virJSONValueObjectAdd(props,
        << Arg("s", "node-name", nodename),
           Arg("T", "read-only",
               IF effective THEN virTristateBoolFromBool(src.readonly)
               ELSE CommonReadOnly(src).readOnly),
           Arg("T", "auto-read-only",
               IF effective THEN "absent"
               ELSE CommonReadOnly(src).autoReadOnly),
           Arg("S", "discard",
               IF ~effective THEN JStr("unmap")
               ELSE IF src.discard # "default" THEN JStr(src.discard)
               ELSE NoValue),
           Arg("S", "detect-zeroes",
               IF effective
                  /\ virDomainDiskGetDetectZeroesMode(
                         src.discard, src.detect_zeroes) # "default"
               THEN JStr(virDomainDiskGetDetectZeroesMode(
                             src.discard, src.detect_zeroes))
               ELSE NoValue),
           Arg("A", "cache",
               qemuBlockStorageSourceGetBlockdevGetCacheProps(src)) >>)

\* the driver name of the switch of qemuBlockStorageSourceGetBackendProps;
\* NoValue when the props name the driver themselves
BackendDriver(src) ==
    IF src.type = "block"
    THEN JStr(IF src.hostcdrom THEN "host_cdrom" ELSE "host_device")
    ELSE IF src.type = "file" THEN JStr("file")
    ELSE IF src.type # "network" THEN NoValue
    ELSE IF src.nbdkit THEN JStr("nbd")
    ELSE JStr(src.protocol)

\* the props of the switch; NoValue when the layer cannot be formatted
BackendFileProps(src, onlytarget) ==
    CASE src.type \in {"block", "file"} ->
            qemuBlockStorageSourceGetFileProps(src, onlytarget)
      [] src.type = "dir" -> qemuBlockStorageSourceGetVvfatProps(src, onlytarget)
      [] src.type = "nvme" -> qemuBlockStorageSourceGetNVMeProps(src)
      [] src.type = "vhostvdpa" -> qemuBlockStorageSourceGetVhostVdpaProps(src)
      [] src.type = "network" /\ src.nbdkit ->
            qemuBlockStorageSourceGetNbdkitProps(src)
      [] src.type = "network" /\ ~src.nbdkit ->
            CASE src.protocol = "gluster" ->
                    qemuBlockStorageSourceGetGlusterProps(src, onlytarget)
              [] src.protocol \in {"http", "https", "ftp", "ftps", "tftp"} ->
                    qemuBlockStorageSourceGetCURLProps(src, onlytarget)
              [] src.protocol = "iscsi" ->
                    qemuBlockStorageSourceGetISCSIProps(src, onlytarget)
              [] src.protocol = "nbd" ->
                    qemuBlockStorageSourceGetNBDProps(src, onlytarget)
              [] src.protocol = "rbd" ->
                    qemuBlockStorageSourceGetRBDProps(src, onlytarget)
              [] src.protocol = "ssh" -> qemuBlockStorageSourceGetSshProps(src)
              [] src.protocol = "nfs" -> qemuBlockStorageSourceGetNFSProps(src)
              [] OTHER -> NoValue
      [] OTHER -> NoValue

\* qemuBlockStorageSourceGetBackendProps(src, flags)
qemuBlockStorageSourceGetBackendProps(src, flags) ==
    LET onlytarget == "TARGET_ONLY" \in flags
        common(props) ==
            IF onlytarget \/ "LEGACY" \in flags THEN props
            ELSE IF qemuBlockStorageSourceAddBlockdevCommonProps(
                        props, src,
                        qemuBlockStorageSourceGetStorageNodename(src),
                        "EFFECTIVE_NODE" \in flags).rc < 0
            THEN NoValue
            ELSE qemuBlockStorageSourceAddBlockdevCommonProps(
                     props, src,
                     qemuBlockStorageSourceGetStorageNodename(src),
                     "EFFECTIVE_NODE" \in flags).obj
        driver(props) ==
            IF props = NoValue THEN NoValue
            ELSE IF BackendDriver(src) = NoValue THEN common(props)
            ELSE IF virJSONValueObjectPrependString(
                        props, "driver", Text(BackendDriver(src))).rc < 0
            THEN NoValue
            ELSE common(virJSONValueObjectPrependString(
                            props, "driver", Text(BackendDriver(src))).object)
    IN  driver(BackendFileProps(src, onlytarget))

(***************************************************************************)
(* Format properties of a layer                                            *)
(***************************************************************************)
\* qemuBlockStorageSourceIsLUKS
qemuBlockStorageSourceIsLUKS(src) ==
    /\ src.format = "raw"
    /\ src.encryption = "qemu"
    /\ src.encformat = "luks"

\* qemuBlockStorageSourceGetFormatLUKSProps(src, props)
qemuBlockStorageSourceGetFormatLUKSProps(src, props) ==
    IF src.nsecrets = 0 THEN [rc |-> -1, obj |-> props, left |-> <<>>]
    ELSE virJSONValueObjectAdd(props,
             << Arg("s", "driver", JStr("luks")),
                Arg("s", "key-secret", EncinfoAlias(0)) >>)

\* qemuBlockStorageSourceGetCryptoProps(src, &encprops)
qemuBlockStorageSourceGetCryptoProps(src) ==
    IF src.encryption # "qemu" \/ src.nsecrets = 0
    THEN [rc |-> 0, obj |-> NoValue, left |-> <<>>]
    ELSE IF src.encformat \notin {"qcow", "luks"}
    THEN [rc |-> -1, obj |-> NoValue, left |-> <<>>]
    ELSE virJSONValueObjectAdd(NoValue,
             << Arg("s", "format",
                    JStr(IF src.encformat = "qcow" THEN "aes" ELSE "luks")),
                Arg("s", "key-secret", EncinfoAlias(0)) >>)

\* qemuBlockStorageSourceGetFormatQcowGenericProps(src, format, props)
qemuBlockStorageSourceGetFormatQcowGenericProps(src, format, props) ==
    IF qemuBlockStorageSourceGetCryptoProps(src).rc < 0
    THEN [rc |-> -1, obj |-> props, left |-> <<>>]
    ELSE virJSONValueObjectAdd(props,
             << Arg("s", "driver", JStr(format)),
                Arg("A", "encrypt",
                    qemuBlockStorageSourceGetCryptoProps(src).obj) >>)

\* the node name of the data file of a qcow2 layer
DataFileNodename == JStr("libvirt-1-datafile")

\* qemuBlockStorageSourceGetFormatQcow2Props(src, props)
qemuBlockStorageSourceGetFormatQcow2Props(src, props) ==
    LET generic(t) ==
            IF t.rc < 0 THEN t
            ELSE virJSONValueObjectAdd(t.obj,
                     << Arg("P", "cache-size", JNum(src.metadataCacheMaxSize)),
                        Arg("T", "discard-no-unref", src.discard_no_unref) >>)
        datafile(t) ==
            IF t.rc < 0 \/ ~src.dataFileStore THEN t
            ELSE virJSONValueObjectAdd(t.obj,
                     << Arg("s", "data-file", DataFileNodename) >>)
    IN  datafile(generic(
            qemuBlockStorageSourceGetFormatQcowGenericProps(
                src, "qcow2", props)))

\* the driver of a format that has no parameters of its own; NoValue for
\* a format that is not a format of a blockdev
FormatDriver(format) ==
    CASE format \in {"fat", "raw"} -> JStr("raw")
      [] format = "ploop" -> JStr("parallels")
      [] format = "vhd" -> JStr("vhdx")
      [] format \in {"bochs", "cloop", "dmg", "vdi", "vpc", "qed", "vmdk"} ->
            JStr(format)
      [] OTHER -> NoValue

\* qemuBlockStorageSourceGetBlockdevFormatProps(src)
qemuBlockStorageSourceGetBlockdevFormatProps(src) ==
    LET driver(props) ==
            IF qemuBlockStorageSourceIsLUKS(src)
            THEN qemuBlockStorageSourceGetFormatLUKSProps(src, props)
            ELSE IF src.format = "qcow2"
            THEN qemuBlockStorageSourceGetFormatQcow2Props(src, props)
            ELSE IF src.format = "qcow"
            THEN qemuBlockStorageSourceGetFormatQcowGenericProps(
                     src, "qcow", props)
            ELSE IF FormatDriver(src.format) = NoValue
            THEN [rc |-> -1, obj |-> props, left |-> <<>>]
            ELSE virJSONValueObjectAdd(props,
                     << Arg("s", "driver", FormatDriver(src.format)) >>)
        format(t) ==
            IF t.rc < 0 THEN NoValue
            ELSE IF driver(t.obj).rc < 0 THEN NoValue
            ELSE driver(t.obj).obj
    IN  format(qemuBlockStorageSourceAddBlockdevCommonProps(
                   NoValue, src,
                   qemuBlockStorageSourceGetFormatNodename(src), TRUE))

\* virStorageSourceIsBacking(backingStore): the layer exists and is not the
\* terminator
BackingStoreIsBacking(backingStore) ==
    backingStore.present /\ backingStore.type # "none"

\* src->format >= VIR_STORAGE_FILE_BACKING: the formats that can have a
\* backing store
FormatHasBacking(format) == format \in {"cow", "qcow", "qcow2", "qed", "vmdk"}

\* mutant: the backing store is formatted for every format
BackingArgs_AnyFormat(src, backingStore) ==
    IF backingStore.present
    THEN IF BackingStoreIsBacking(backingStore)
         THEN << Arg("s", "backing",
                     qemuBlockStorageSourceGetEffectiveNodename(
                         backingStore.src)) >>
         ELSE << Arg("n", "backing", NoValue) >>
    ELSE <<>>

\* the arguments that format the backing store
BackingArgs(src, backingStore) ==
    IF backingStore.present /\ FormatHasBacking(src.format)
    THEN IF BackingStoreIsBacking(backingStore)
         THEN << Arg("s", "backing",
                     qemuBlockStorageSourceGetEffectiveNodename(
                         backingStore.src)) >>
         ELSE << Arg("n", "backing", NoValue) >>
    ELSE <<>>

\* qemuBlockStorageSourceGetFormatProps(src, backingStore)
qemuBlockStorageSourceGetFormatProps(src, backingStore) ==
    LET file(props) ==
            IF props = NoValue THEN NoValue
            ELSE IF virJSONValueObjectAdd(props,
                        << Arg("s", "file",
                               qemuBlockStorageSourceGetEffectiveStorageNodename(
                                   src)) >>
                        \o BackingArgs(src, backingStore)).rc < 0
            THEN NoValue
            ELSE virJSONValueObjectAdd(props,
                     << Arg("s", "file",
                            qemuBlockStorageSourceGetEffectiveStorageNodename(
                                src)) >>
                     \o BackingArgs(src, backingStore)).obj
    IN  IF BackingStoreIsBacking(backingStore) /\ ~FormatHasBacking(src.format)
        THEN NoValue
        ELSE file(qemuBlockStorageSourceGetBlockdevFormatProps(src))

(***************************************************************************)
(* Inputs of the attach operations                                         *)
(***************************************************************************)
\* every layer configuration, for operations on one layer
LayerCfgs ==
    [ format : BOOLEAN, slice : BOOLEAN, pr : BOOLEAN, tls : BOOLEAN,
      secinfo : BOOLEAN, enccount : 0..MaxEnc, httpcookie : BOOLEAN,
      tlsKeySecret : BOOLEAN, fdpass : BOOLEAN ]

\* layer configurations of the layers of a chain
ChainLayerCfgs ==
    { c \in LayerCfgs : /\ ~c.pr /\ ~c.tls /\ ~c.httpcookie /\ ~c.tlsKeySecret
                        /\ ~c.fdpass /\ c.enccount = 0 }

Range(f) == { f[x] : x \in DOMAIN f }

\* identities a create command of the attach data can name
DataIds(d) ==
    ({ d.prmgrProps, d.authsecretProps, d.httpcookiesecretProps,
       d.tlsKeySecretProps, d.tlsProps, d.fdpass, d.storageProps,
       d.storageSliceProps, d.formatProps, d.chardevAlias }
     \cup Range(d.encryptsecretProps)
     \cup (IF d.chardevDef THEN {Id("chardev-props", 0, 0)} ELSE {})) \ {NULL}

\* identities a teardown command of the attach data can name
DataTeardownIds(d) ==
    ({ d.prmgrAlias, d.authsecretAlias, d.httpcookiesecretAlias,
       d.tlsKeySecretAlias, d.tlsAlias, d.fdpass, d.storageNodeName,
       d.storageSliceNodeName, d.formatNodeName, d.chardevAlias }
     \cup Range(d.encryptsecretAlias)) \ {NULL}

\* layer configurations of the backing chain of a mirror
MirrorLayerCfgs ==
    { c \in ChainLayerCfgs : ~c.secinfo }

ChainIds(cd) ==
    (UNION { DataIds(cd.srcdata[i]) : i \in DOMAIN cd.srcdata }
     \cup {cd.copyOnReadProps}) \ {NULL}

ChainTeardownIds(cd) ==
    (UNION { DataTeardownIds(cd.srcdata[i]) : i \in DOMAIN cd.srcdata }
     \cup {cd.copyOnReadNodename}) \ {NULL}

CreateRejects(ids) == {{}} \cup {{x} : x \in ids}

\* the thread state at the start of an operation
Thread(rej, rejDel) ==
    [ mon |-> mon, fdpassed |-> fdpassed, log |-> <<>>, err |-> lastErr,
      rej |-> rej, rejDel |-> rejDel, d |-> NewAttachData, cd |-> chain,
      fl |-> filters, job |-> job, disk |-> disk, img |-> img,
      cleanupErr |-> NoError, startup |-> NoStartup, lock |-> <<>>,
      rc |-> 0 ]

\* the thread state r at the end of an operation becomes the program state
Finish(r) ==
    /\ mon' = r.mon
    /\ fdpassed' = r.fdpassed
    /\ log' = r.log
    /\ lastErr' = r.err
    /\ ret' = r.rc
    /\ chain' = r.cd
    /\ filters' = r.fl
    /\ job' = r.job
    /\ disk' = r.disk
    /\ img' = r.img
    /\ UNCHANGED <<nodedata, call, vsrc,
                   out, jobj, crt,
                   fw>>

NoHist ==
    [ premon |-> {}, applyRet |-> 0, errAtStart |-> NoError, srcs |-> <<>>,
      applyLog |-> <<>>, cor |-> NULL, rejDel |-> {},
      chainAtStart |-> NewChainData, prejob |-> NoJob, predisk |-> NoDisk,
      preimg |-> NoImages, rej |-> {}, monAtStart |-> {},
      startup |-> NoStartup, lock |-> <<>> ]

\* a node of the name of the first layer's format node may be held by the
\* device manager already (a name clash the device manager refuses)
PreExisting == { {}, {Id("format", 1, 0)} }

Init ==
    /\ pc = "idle"
    /\ mon \in PreExisting
    /\ fdpassed = {}
    /\ chain = NewChainData
    /\ filters = <<>>
    /\ log = <<>>
    /\ lastErr = NoError
    /\ ret = 0
    /\ hist = NoHist
    /\ job = NoJob
    /\ disk = NoDisk
    /\ img = NoImages
    /\ nodedata = <<>>
    /\ call = NoCall
    /\ vsrc = NoSource
    /\ out = NoOut
    /\ jobj = NoJSON
    /\ crt = NoCreateWait
    /\ fw = NoFirewall

(***************************************************************************)
(* Operations on one layer                                                 *)
(***************************************************************************)
AttachPrepare ==
    /\ pc = "idle"
    /\ \E c \in LayerCfgs :
          LET src == LayerSrc(1, c)
          IN  /\ chain' = [NewChainData EXCEPT !.srcdata =
                    << AttachPrepareCommon(src,
                          qemuBlockStorageSourceAttachPrepareBlockdev(src)) >>]
              /\ hist' = [NoHist EXCEPT !.srcs = <<src>>]
    /\ pc' = "layer_prepared"
    /\ UNCHANGED <<mon, fdpassed, filters, log, lastErr, ret, job, disk,
                   img, nodedata, call, vsrc, out, jobj, crt,
                   fw>>

AttachPrepareChardevDisk ==
    /\ pc = "idle"
    /\ chain' = [NewChainData EXCEPT !.srcdata =
                    << AttachPrepareChardev(Id("chardev", 1, 0)) >>]
    /\ hist' = NoHist
    /\ pc' = "layer_prepared"
    /\ UNCHANGED <<mon, fdpassed, filters, log, lastErr, ret, job, disk,
                   img, nodedata, call, vsrc, out, jobj, crt,
                   fw>>

AttachApply ==
    /\ pc = "layer_prepared"
    /\ \E rej \in CreateRejects(ChainIds(chain)) :
          LET s == [Thread(rej, {}) EXCEPT !.d = chain.srcdata[1]]
              r == qemuBlockStorageSourceAttachApply(s)
          IN  /\ Finish([r EXCEPT !.cd.srcdata[1] = r.d])
              /\ hist' = [hist EXCEPT !.premon = mon, !.applyRet = r.rc,
                                      !.applyLog = r.log]
    /\ pc' = "layer_applied"

\* the layer is in use; later it is removed with data built from the layer
DetachPrepare ==
    /\ pc = "layer_applied"
    /\ ret = 0
    /\ chain' = IF hist.srcs = <<>>
                THEN qemuBlockStorageSourceChainDetachPrepareChardev(
                         chain.srcdata[1].chardevAlias)
                ELSE [NewChainData EXCEPT !.srcdata =
                         << qemuBlockStorageSourceDetachPrepare(hist.srcs[1]) >>]
    /\ pc' = "layer_detach_prepared"
    /\ UNCHANGED <<mon, fdpassed, filters, log, lastErr, ret, hist, job, disk,
                   img, nodedata, call, vsrc, out, jobj, crt,
                   fw>>

AttachRollback ==
    /\ pc \in {"layer_applied", "layer_detach_prepared"}
    /\ \E rejDel \in RejectSets(ChainTeardownIds(chain)) :
          LET s == [Thread({}, rejDel) EXCEPT !.d = chain.srcdata[1]]
              r == qemuBlockStorageSourceAttachRollback(s)
          IN  /\ Finish([r EXCEPT !.cd.srcdata[1] = r.d])
              /\ hist' = [hist EXCEPT !.errAtStart = lastErr,
                                      !.rejDel = rejDel,
                                      !.chainAtStart = chain,
                                      !.monAtStart = mon]
    /\ pc' = "layer_rolledback"

(***************************************************************************)
(* Operations on a chain                                                   *)
(***************************************************************************)
ChainAttachPrepare ==
    /\ pc = "idle"
    /\ \E n \in 1..MaxLayers : \E cfgs \in [1..n -> ChainLayerCfgs] :
       \E cor \in BOOLEAN :
          LET srcs == [i \in 1..n |-> LayerSrc(i, cfgs[i])]
          IN  /\ chain' = [ChainAttachPrepareBlockdev(srcs) EXCEPT
                    !.copyOnReadProps = Opt(cor, Id("cor", 0, 0)),
                    !.copyOnReadNodename = Opt(cor, Id("cor", 0, 0))]
              /\ hist' = [NoHist EXCEPT !.srcs = srcs,
                                        !.cor = Opt(cor, Id("cor", 0, 0))]
    /\ pc' = "chain_prepared"
    /\ UNCHANGED <<mon, fdpassed, filters, log, lastErr, ret, job, disk,
                   img, nodedata, call, vsrc, out, jobj, crt,
                   fw>>

ChainAttach ==
    /\ pc = "chain_prepared"
    /\ \E rej \in CreateRejects(ChainIds(chain)) :
          LET r == qemuBlockStorageSourceChainAttach(Thread(rej, {}))
          IN  /\ Finish(r)
              /\ hist' = [hist EXCEPT !.premon = mon, !.applyRet = r.rc,
                                      !.applyLog = r.log,
                                      !.chainAtStart = chain]
    /\ pc' = "chain_applied"

ChainDetachPrepare ==
    /\ pc = "chain_applied"
    /\ ret = 0
    /\ chain' = qemuBlockStorageSourceChainDetachPrepareBlockdev(hist.srcs)
    /\ pc' = "chain_detach_prepared"
    /\ UNCHANGED <<mon, fdpassed, filters, log, lastErr, ret, hist, job, disk,
                   img, nodedata, call, vsrc, out, jobj, crt,
                   fw>>

ChainDetach ==
    /\ pc \in {"chain_applied", "chain_detach_prepared"}
    /\ \E rejDel \in RejectSets(ChainTeardownIds(chain)) :
          LET r == qemuBlockStorageSourceChainDetach(Thread({}, rejDel))
          IN  /\ Finish(r)
              /\ hist' = [hist EXCEPT !.errAtStart = lastErr,
                                      !.rejDel = rejDel,
                                      !.chainAtStart = chain,
                                      !.monAtStart = mon]
    /\ pc' = IF pc = "chain_applied" THEN "chain_rolledback" ELSE "chain_detached"

(***************************************************************************)
(* Throttle filters                                                        *)
(***************************************************************************)
ThrottlePrepare ==
    /\ pc = "idle"
    /\ \E n \in 1..MaxFilters :
          filters' = [k \in 1..n |-> qemuBlockThrottleFilterAttachPrepareBlockdev(k)]
    /\ pc' = "filters_prepared"
    /\ hist' = NoHist
    /\ UNCHANGED <<mon, fdpassed, chain, log, lastErr, ret, job, disk,
                   img, nodedata, call, vsrc, out, jobj, crt,
                   fw>>

ThrottleAttach ==
    /\ pc = "filters_prepared"
    /\ \E rej \in CreateRejects({ filters[k].filterProps : k \in DOMAIN filters }) :
          LET r == qemuBlockThrottleFiltersAttach(Thread(rej, {}))
          IN  /\ Finish(r)
              /\ hist' = [hist EXCEPT !.premon = mon, !.applyRet = r.rc,
                                      !.applyLog = r.log]
    /\ pc' = "filters_applied"

ThrottleDetach ==
    /\ pc = "filters_applied"
    /\ \E rejDel \in RejectSets({ filters[k].filterNodeName : k \in DOMAIN filters }) :
          LET r == qemuBlockThrottleFiltersDetach(Thread({}, rejDel))
          IN  /\ Finish(r)
              /\ hist' = [hist EXCEPT !.errAtStart = lastErr, !.rejDel = rejDel]
    /\ pc' = "filters_rolledback"

(***************************************************************************)
(* Block jobs                                                              *)
(***************************************************************************)
CommitKeys ==
    { Id("commit-invalid", 0, 0), Id("mirror-copy", 0, 0), Id("job-new", 0, 0),
      Id("backing-path", 0, 0), Id("enter-monitor", 0, 0),
      Id("block-commit", 0, 0) }
    \cup { Id("access-rw", k, 0) : k \in Images }
    \cup { Id("reopen-props", k, 0) : k \in {BaseDataFile, TopParentDataFile} }
    \cup { Id("reopen-rw", k, 0) : k \in {BaseDataFile, TopParentDataFile} }

CommitCleanupKeys ==
    { Id("access-ro", k, 0) : k \in Images }
    \cup { Id("reopen-ro", k, 0) : k \in {BaseDataFile, TopParentDataFile} }

\* the cleanup runs only after a refused step: without one its refusals are
\* no input of the operation
CommitCleanupRejects(rej) ==
    IF rej = {} THEN {{}} ELSE RejectSets(CommitCleanupKeys)

CommitImages ==
    { i \in [ active : BOOLEAN, baseDf : BOOLEAN,
              tp : {"none", "disksrc", "backing"}, tpDf : BOOLEAN,
              grant : {NoImages.grant}, readonly : {NoImages.readonly},
              mode : {NoImages.mode} ] :
        /\ i.active => i.tp = "none"
        /\ i.tpDf => i.tp # "none" }

BlockCommit ==
    /\ pc = "idle"
    /\ \E i \in CommitImages : \E flagActive \in BOOLEAN :
       \E rej \in CreateRejects(CommitKeys) :
       \E rejCleanup \in CommitCleanupRejects(rej) :
          LET s == [Thread(rej \cup rejCleanup, {}) EXCEPT !.img = i]
              r == qemuBlockCommit(s, flagActive)
          IN  /\ Finish(r)
              /\ hist' = [NoHist EXCEPT !.preimg = i, !.errAtStart = r.cleanupErr,
                                        !.startup = r.startup,
                                        !.lock = r.lock,
                                        !.rej = rej \cup rejCleanup]
              /\ pc' = IF r.rc < 0 THEN "commit_failed" ELSE "job"

\* an image is formatted by a blockdev-create job
BlockdevCreate ==
    /\ pc = "idle"
    /\ \E rej \in RejectSets({ Id("job-new", 0, 0), Id("enter-monitor", 0, 0),
                               Id("blockdev-create", 0, 0) }) :
       \E outcome \in {"COMPLETED", "FAILED", "CANCELLED", "wait-failed"} :
          LET r == qemuBlockStorageSourceCreateGeneric(Thread(rej, {}), outcome)
          IN  /\ Finish(r)
              /\ hist' = [NoHist EXCEPT !.rej = rej, !.startup = r.startup,
                                        !.lock = r.lock]
    /\ pc' = "created"

\* the layers whose image is created: a layer without the dependency
\* objects of network storage other than the authentication secret
CreatedLayer(d) ==
    /\ ~d.chardevDef
    /\ d.prmgrProps = NULL /\ d.tlsProps = NULL /\ d.fdpass = NULL
    /\ d.httpcookiesecretProps = NULL /\ d.tlsKeySecretProps = NULL

\* how the creation of an image can run
CreateRuns ==
    [ sliceStorage : {FALSE}, readonly : BOOLEAN,
      storage : {"local", "noprops", "create"},
      format : {"raw", "datafile", "noprops", "create"},
      outcome : {"COMPLETED", "FAILED", "wait-failed"} ]

\* the steps of the creation of an image that can fail
CreateKeys(d) ==
    DataIds(d)
    \cup { Id("access-rw", CreateSource, 0), Id("access-ro", CreateSource, 0),
           Id("enter-monitor", 0, 0), Id("domain-died", 0, 1),
           Id("domain-died", 0, 2), Id("domain-died", 0, 3),
           Id("job-new", 0, 0), Id("blockdev-create", 0, 0),
           Id("create-storage-props", 0, 0), Id("create-format-props", 0, 0) }

\* the image of the prepared layer is created, formatted and attached
BlockStorageSourceCreate ==
    /\ pc = "layer_prepared"
    /\ CreatedLayer(chain.srcdata[1])
    /\ \E o \in CreateRuns : \E rej \in CreateRejects(CreateKeys(chain.srcdata[1])) :
          LET s == [Thread(rej, {}) EXCEPT !.d = chain.srcdata[1]]
              r == qemuBlockStorageSourceCreate(
                       s, [o EXCEPT !.sliceStorage =
                                       chain.srcdata[1].storageSliceProps # NULL])
          IN  /\ Finish([r EXCEPT !.cd.srcdata[1] = r.d])
              /\ hist' = [hist EXCEPT !.premon = mon, !.rej = rej,
                                      !.lock = r.lock, !.startup = r.startup]
    /\ pc' = "image_created"

\* a block copy job was started for the disk: the mirror and the job exist
BlockCopyStart ==
    /\ pc = "idle"
    /\ \E n \in 0..MaxLayers : \E cfgs \in [1..n -> MirrorLayerCfgs] :
       \E missing, shallow, reuse \in BOOLEAN :
          /\ job' = [NoJob EXCEPT !.state = "RUNNING", !.type = "COPY",
                                  !.jobflagsmissing = missing,
                                  !.shallow = ~missing /\ shallow,
                                  !.reuse = ~missing /\ reuse]
          /\ disk' = [NoDisk EXCEPT !.mirror = TRUE, !.mirrorJob = "COPY",
                         !.mirrorBacking = [k \in 1..n |-> LayerSrc(k, cfgs[k])]]
    /\ pc' = "job"
    /\ hist' = NoHist
    /\ UNCHANGED <<mon, fdpassed, chain, filters, log, lastErr, ret,
                   img, nodedata, call, vsrc, out, jobj, crt,
                   fw>>

\* a job of a type without pivot was started for the disk
OtherJobStart ==
    /\ pc = "idle"
    /\ \E t \in {"PULL", "BACKUP"} :
          job' = [NoJob EXCEPT !.state = "RUNNING", !.type = t]
    /\ pc' = "job"
    /\ hist' = NoHist
    /\ UNCHANGED <<mon, fdpassed, chain, filters, log, lastErr, ret, disk,
                   img, nodedata, call, vsrc, out, jobj, crt,
                   fw>>

\* the device manager reports that the job converged
JobReady ==
    /\ pc \in {"job", "pivoted"}
    /\ job.state = "RUNNING"
    /\ job.type \in {"COPY", "ACTIVE_COMMIT", "BACKUP"}
    /\ job' = [job EXCEPT !.state = "READY"]
    /\ pc' = "job"
    /\ UNCHANGED <<mon, fdpassed, chain, filters, log, lastErr, ret, hist,
                   disk, img, nodedata, call, vsrc,
                   out, jobj, crt,
                   fw>>

\* the steps of a pivot of the job of thread state s that can fail: none when
\* the job is refused at once, the chain's only when it is opened late
PivotKeys(s, cd) ==
    IF PivotCheck(s).rc < 0
    THEN {}
    ELSE { Id("enter-monitor", 0, 0), JobName }
         \cup (IF PivotBitmapActions(s)
               THEN { Id("bitmap-add-build", 0, 0), TmpActiveWrite } ELSE {})
         \cup (IF PivotLate(s)
               THEN { Id("prepare-host-chain", 0, 0), Id("chain-prepare", 0, 0),
                      Id("snapshot-build", 0, 0), MirrorBackingInstalled }
                    \cup ChainIds(cd)
               ELSE {})

\* the teardown commands of a pivot are those of the late-opened chain
PivotTeardownRejects(s, cd) ==
    IF PivotCheck(s).rc = 0 /\ PivotLate(s)
    THEN {{}, ChainTeardownIds(cd)}
    ELSE {{}}

\* a pivot of the job; a pivot that is called again after a pivot meets no
\* refusals but those the state of the device manager brings
BlockPivot ==
    /\ pc \in {"job", "pivoted"}
    /\ LET cd == ChainAttachPrepareBlockdev(disk.mirrorBacking)
       IN  \E rej \in (IF pc = "job"
                       THEN CreateRejects(PivotKeys(Thread({}, {}), cd))
                       ELSE {{}}) :
           \E rejDel \in (IF pc = "job"
                          THEN PivotTeardownRejects(Thread({}, {}), cd)
                          ELSE {{}}) :
              LET r == qemuBlockPivot(Thread(rej, rejDel))
              IN  /\ Finish(r)
                  /\ hist' = [hist EXCEPT !.premon = mon, !.prejob = job,
                                          !.predisk = disk, !.rej = rej,
                                          !.rejDel = rejDel,
                                          !.lock = r.lock]
    /\ pc' = "pivoted"

\* the device manager reports that the job waits for its finalize request
JobPending ==
    /\ pc = "job"
    /\ job.state = "RUNNING"
    /\ job' = [job EXCEPT !.state = "PENDING"]
    /\ UNCHANGED <<pc, mon, fdpassed, chain, filters, log, lastErr, ret, hist,
                   disk, img, nodedata, call, vsrc,
                   out, jobj, crt,
                   fw>>

\* a finalize request for the job; a request that is repeated after a
\* finalize meets no refusals
BlockFinalize ==
    /\ pc \in {"job", "finalized"}
    /\ job.state # "NONE"
    /\ \E rej \in (IF pc = "job"
                   THEN RejectSets({ Id("enter-monitor", 0, 0),
                                     Id("job-finalize", 0, 0) })
                   ELSE {{}}) :
          LET r == qemuBlockFinalize(Thread(rej, {}))
          IN  /\ Finish(r)
              /\ hist' = [hist EXCEPT !.premon = mon, !.prejob = job,
                                      !.predisk = disk, !.rej = rej,
                                      !.lock = r.lock]
    /\ pc' = "finalized"

Next ==
    \/ AttachPrepare
    \/ AttachPrepareChardevDisk
    \/ AttachApply
    \/ DetachPrepare
    \/ AttachRollback
    \/ ChainAttachPrepare
    \/ ChainAttach
    \/ ChainDetachPrepare
    \/ ChainDetach
    \/ ThrottlePrepare
    \/ ThrottleAttach
    \/ ThrottleDetach
    \/ BlockCommit
    \/ BlockdevCreate
    \/ BlockStorageSourceCreate
    \/ BlockCopyStart
    \/ OtherJobStart
    \/ JobReady
    \/ BlockPivot
    \/ JobPending
    \/ BlockFinalize

Spec == Init /\ [][Next]_vars


(***************************************************************************)
(* The bitmap functions applied to every chain and every bitmap metadata   *)
(***************************************************************************)
InitBitmaps ==
    /\ pc = "idle"
    /\ mon = {}
    /\ fdpassed = {}
    /\ chain = NewChainData
    /\ filters = <<>>
    /\ log = <<>>
    /\ lastErr = NoError
    /\ ret = 0
    /\ hist = NoHist
    /\ job = NoJob
    /\ disk = NoDisk
    /\ img = NoImages
    /\ nodedata \in BitmapChains
    /\ call = NoCall
    /\ vsrc = NoSource
    /\ out = NoOut
    /\ jobj = NoJSON
    /\ crt = NoCreateWait
    /\ fw = NoFirewall

\* qemuBlockBitmapChainIsValid of the chain; it may be evaluated again
BitmapChainIsValid ==
    /\ call.op \in {"none", "valid"}
    /\ \E name \in BitmapNames :
          call' = [NoCall EXCEPT
                      !.op = "valid",
                      !.a.data = nodedata,
                      !.a.bitmapname = name,
                      !.valid = qemuBlockBitmapChainIsValid(nodedata, 1, name)]
    /\ UNCHANGED <<pc, mon, fdpassed, chain, filters, log, lastErr, ret, hist,
                   job, disk, img, nodedata, vsrc, out, jobj, crt,
                   fw>>

BitmapMergeActions ==
    /\ call.op = "none"
    /\ \E a \in MergeArgs(nodedata) :
          call' = [NoCall EXCEPT
                      !.op = "merge",
                      !.a = a,
                      !.rc = qemuBlockGetBitmapMergeActions(a).rc,
                      !.actions = qemuBlockGetBitmapMergeActions(a).actions]
    /\ UNCHANGED <<pc, mon, fdpassed, chain, filters, log, lastErr, ret, hist,
                   job, disk, img, nodedata, vsrc, out, jobj, crt,
                   fw>>

\* the formats of the destination of a block copy and of the base of a commit
BitmapFormats == {"raw", "qcow2"}

\* the bitmap handling of a finished block copy of the disk into a mirror
\* outside of the chain
BitmapsHandleBlockcopy ==
    /\ call.op = "none"
    /\ Len(nodedata) >= 1
    /\ \E format \in BitmapFormats : \E shallow \in BOOLEAN :
          LET r == qemuBlockBitmapsHandleBlockcopy(
                       nodedata, 1, ExternalImage, format, shallow)
          IN  call' = [NoCall EXCEPT
                          !.op = "blockcopy",
                          !.a.data = nodedata,
                          !.a.target = ExternalImage,
                          !.a.writebitmapsrc = ExternalImage,
                          !.format = format,
                          !.flags = IF shallow THEN {"shallow"} ELSE {},
                          !.rc = r.rc,
                          !.actions = r.actions]
    /\ UNCHANGED <<pc, mon, fdpassed, chain, filters, log, lastErr, ret, hist,
                   job, disk, img, nodedata, vsrc, out, jobj, crt,
                   fw>>

\* the bitmap handling of a finished commit of the top layer into a layer
\* below it
BitmapsHandleCommitFinish ==
    /\ call.op = "none"
    /\ \E basesrc \in 2..Len(nodedata) : \E format \in BitmapFormats :
       \E active \in BOOLEAN :
          LET r == qemuBlockBitmapsHandleCommitFinish(
                       nodedata, 1, basesrc, format, active)
          IN  call' = [NoCall EXCEPT
                          !.op = "commit-finish",
                          !.a.data = nodedata,
                          !.a.basesrc = basesrc,
                          !.a.target = basesrc,
                          !.a.writebitmapsrc = IF active THEN basesrc ELSE 0,
                          !.format = format,
                          !.flags = IF active THEN {"active"} ELSE {},
                          !.rc = r.rc,
                          !.actions = r.actions]
    /\ UNCHANGED <<pc, mon, fdpassed, chain, filters, log, lastErr, ret, hist,
                   job, disk, img, nodedata, vsrc, out, jobj, crt,
                   fw>>

NextBitmaps ==
    \/ BitmapChainIsValid
    \/ BitmapMergeActions
    \/ BitmapsHandleBlockcopy
    \/ BitmapsHandleCommitFinish

SpecBitmaps == InitBitmaps /\ [][NextBitmaps]_vars

\* the program of the block operations is at rest while builders run
BlockProgramAtRest ==
    /\ pc = "idle" /\ mon = {} /\ fdpassed = {} /\ chain = NewChainData
    /\ filters = <<>> /\ log = <<>> /\ lastErr = NoError /\ ret = 0
    /\ hist = NoHist /\ job = NoJob /\ disk = NoDisk /\ img = NoImages
    /\ nodedata = <<>> /\ call = NoCall

ProgramAtRest ==
    /\ BlockProgramAtRest
    /\ crt = NoCreateWait
    /\ fw = NoFirewall

KeepProgram ==
    UNCHANGED <<pc, mon, fdpassed, chain, filters, log, lastErr, ret, hist,
                job, disk, img, nodedata, call, crt, fw>>

(***************************************************************************)
(* The node names of one layer are set and cleared in any order, and the   *)
(* effective names are read                                                *)
(***************************************************************************)
MaxNames == 2

\* the names a node of the kind can be given, and NULL to clear the name
NodeNames(kind) ==
    { JStr("libvirt-" \o ToString(k) \o "-" \o kind) : k \in 1..MaxNames }
    \cup {NoValue}

InitNodenames ==
    /\ ProgramAtRest
    /\ vsrc = NoSource
    /\ out = NoOut
    /\ jobj = NoJSON

SetStorageNodename ==
    /\ \E n \in NodeNames("storage") :
          vsrc' = qemuBlockStorageSourceSetStorageNodename(vsrc, n)
    /\ out' = NoOut
    /\ UNCHANGED jobj
    /\ KeepProgram

SetFormatNodename ==
    /\ \E n \in NodeNames("format") :
          vsrc' = qemuBlockStorageSourceSetFormatNodename(vsrc, n)
    /\ out' = NoOut
    /\ UNCHANGED jobj
    /\ KeepProgram

\* the layer gets a slice, the slice gets or loses its node name, or the
\* slice is dropped
SetSliceStorage ==
    /\ \/ \E n \in NodeNames("slice") :
             vsrc' = [vsrc EXCEPT !.sliceStorage =
                                     [present |-> TRUE, nodename |-> n]]
       \/ vsrc' = [vsrc EXCEPT !.sliceStorage = NoSlice]
    /\ out' = NoOut
    /\ UNCHANGED jobj
    /\ KeepProgram

GetEffectiveNodename ==
    /\ out' = [NoOut EXCEPT
                  !.op = "effective-node",
                  !.result = qemuBlockStorageSourceGetEffectiveNodename(vsrc)]
    /\ UNCHANGED <<vsrc, jobj>>
    /\ KeepProgram

GetEffectiveStorageNodename ==
    /\ out' = [NoOut EXCEPT
                  !.op = "effective-storage-node",
                  !.result =
                      qemuBlockStorageSourceGetEffectiveStorageNodename(vsrc)]
    /\ UNCHANGED <<vsrc, jobj>>
    /\ KeepProgram

NextNodenames ==
    \/ SetStorageNodename
    \/ SetFormatNodename
    \/ SetSliceStorage
    \/ GetEffectiveNodename
    \/ GetEffectiveStorageNodename

SpecNodenames == InitNodenames /\ [][NextNodenames]_vars

(***************************************************************************)
(* The property builders are applied to one layer drawn from the layers    *)
(* of every kind                                                           *)
(***************************************************************************)
MaxHosts == 2

Host(k, transport) ==
    [ name |-> JStr("host" \o ToString(k)), port |-> 1000 + k,
      transport |-> transport, socket |-> JStr("/run/host.socket"),
      inet6 |-> FALSE ]

\* the host lists of a network layer: up to MaxHosts hosts over tcp, and
\* one host behind a unix socket
TcpHosts == { [k \in 1..n |-> Host(k, "tcp")] : n \in 0..MaxHosts }

HostLists == TcpHosts \cup { << Host(1, "unix") >> }

NamedSource ==
    [NoSource EXCEPT !.nodenamestorage = JStr("libvirt-1-storage"),
                     !.nodenameformat = JStr("libvirt-1-format")]

NetworkSource(protocol, hosts, path) ==
    [NamedSource EXCEPT !.type = "network", !.protocol = protocol,
                        !.hosts = hosts, !.path = path]

CurlSources ==
    { [NetworkSource(p, h, JStr("image.iso")) EXCEPT
          !.auth = a, !.cookies = c, !.httpcookie = c,
          !.sslverify = IF p \in {"https", "ftps"} THEN "no" ELSE "absent"] :
      p \in {"http", "https", "ftp", "ftps", "tftp"}, h \in TcpHosts,
      a \in BOOLEAN, c \in BOOLEAN }

GlusterSources ==
    { [NetworkSource("gluster", h, JStr("pool/image")) EXCEPT
          !.debug = d, !.debugLevel = 4] :
      h \in HostLists, d \in BOOLEAN }

ISCSISources ==
    { [NetworkSource("iscsi", h, p) EXCEPT !.auth = a] :
      h \in TcpHosts, a \in BOOLEAN,
      p \in { JStr("iqn.2017-04.com.example:disks/1"),
              JStr("iqn.2017-04.com.example:disks/x") } }

NBDSources ==
    { [NetworkSource("nbd", h, JStr("export")) EXCEPT
          !.tlsAlias = t, !.tlsHostname = t] :
      h \in HostLists, t \in BOOLEAN }

RBDSources ==
    { [NetworkSource("rbd", h, p) EXCEPT
          !.auth = a,
          !.encryption = IF n = 0 THEN "none" ELSE e,
          !.encformat = IF n = 0 THEN "default" ELSE "luks",
          !.nsecrets = n] :
      h \in TcpHosts, a \in BOOLEAN, n \in 0..(MaxEnc + 1),
      e \in {"librbd", "qemu"},
      p \in { JStr("pool/image"), JStr("image") } }

SshSources ==
    { [NetworkSource("ssh", h, JStr("/image")) EXCEPT
          !.auth = a, !.ssh_host_key_check_disabled = a] :
      h \in HostLists, a \in BOOLEAN }

NFSSources ==
    { [NetworkSource("nfs", << Host(1, "tcp") >>, JStr("/export")) EXCEPT
          !.nfs_uid = u, !.nfs_gid = u] : u \in {-1, 0} }

NbdkitSources ==
    { [NetworkSource("https", h, JStr("image.iso")) EXCEPT
          !.nbdkit = TRUE, !.auth = TRUE, !.cookies = TRUE] :
      h \in TcpHosts }

FdTuples ==
    { [nfds |-> 0, writable |-> FALSE], [nfds |-> 1, writable |-> FALSE],
      [nfds |-> 1, writable |-> TRUE], [nfds |-> 2, writable |-> TRUE] }

LocalSources ==
    { [NamedSource EXCEPT
          !.type = t, !.fdtuple = f, !.fdpass = f.nfds > 0, !.readonly = r,
          !.pr = (t = "block" /\ r),
          !.discard = c[1], !.detect_zeroes = c[2], !.cachemode = c[3]] :
      t \in {"file", "block"}, f \in FdTuples, r \in BOOLEAN,
      c \in { <<"default", "default", "default">>,
              <<"unmap", "unmap", "none">>,
              <<"ignore", "unmap", "unsafe">> } }

OtherSources ==
    { [NamedSource EXCEPT !.type = t, !.readonly = r] :
      t \in {"dir", "nvme", "vhostvdpa", "volume"}, r \in BOOLEAN }
    \cup { [NamedSource EXCEPT !.nodenamestorage = LongNodeName],
           [NamedSource EXCEPT !.type = "block", !.hostcdrom = TRUE,
                               !.iomode = "native"] }

BackendSources ==
    CurlSources \cup GlusterSources \cup ISCSISources \cup NBDSources
    \cup RBDSources \cup SshSources \cup NFSSources \cup NbdkitSources
    \cup LocalSources \cup OtherSources

\* the layers whose format properties differ: the format, the encryption
\* by qemu, the data file, the slice and the node name of the format
FormatSources ==
    { [NamedSource EXCEPT
          !.format = f, !.encryption = e[1], !.encformat = e[2],
          !.nsecrets = e[3], !.dataFileStore = d, !.sliceStorage = sl,
          !.nodenameformat = nf] :
      f \in {"raw", "fat", "qcow2", "qcow", "qed", "vmdk", "vhd", "iso"},
      e \in { <<"none", "default", 0>>, <<"qemu", "luks", 1>>,
              <<"qemu", "luks2", 1>> },
      d \in BOOLEAN,
      sl \in { NoSlice,
               [present |-> TRUE, nodename |-> JStr("libvirt-1-slice")] },
      nf \in { JStr("libvirt-1-format"), NoValue } }

BackingStores ==
    { NoBackingStore, BackingTerminator,
      BackingLayer([NoSource EXCEPT
                       !.nodenamestorage = JStr("libvirt-2-storage"),
                       !.nodenameformat = JStr("libvirt-2-format")]),
      BackingLayer([NoSource EXCEPT
                       !.nodenamestorage = JStr("libvirt-2-storage")]),
      BackingLayer(NoSource) }

BackendFlags == SUBSET {"LEGACY", "TARGET_ONLY", "EFFECTIVE_NODE"}

InitProps ==
    /\ ProgramAtRest
    /\ vsrc \in BackendSources \cup FormatSources
    /\ out = NoOut
    /\ jobj = NoJSON

GetBackendProps ==
    /\ \E flags \in BackendFlags :
          out' = [NoOut EXCEPT
                     !.op = "backend", !.flags = flags,
                     !.result =
                         qemuBlockStorageSourceGetBackendProps(vsrc, flags)]
    /\ UNCHANGED <<vsrc, jobj>>
    /\ KeepProgram

GetFormatProps ==
    /\ \E backingStore \in BackingStores :
          out' = [NoOut EXCEPT
                     !.op = "format", !.backingStore = backingStore,
                     !.result = qemuBlockStorageSourceGetFormatProps(
                                    vsrc, backingStore)]
    /\ UNCHANGED <<vsrc, jobj>>
    /\ KeepProgram

NextProps ==
    \/ GetBackendProps
    \/ GetFormatProps

SpecProps == InitProps /\ [][NextProps]_vars

(***************************************************************************)
(* One JSON object is built by appending, prepending, adding typed         *)
(* arguments and removing keys, in any order                               *)
(***************************************************************************)
MaxKeys == 2

JSONKeys == { "key" \o ToString(k) : k \in 1..MaxKeys }

\* the values offered to an object: a string and a nested object
NestedValues == { JObject(<< <<"inner", JStr("v")>> >>) }

JSONValues == { JStr("v") } \cup NestedValues

\* the arguments of a typed add: a string, a string that is NULL where it
\* must not and where it may be, and a nested object
JSONArgs ==
    { Arg(c[1], k, c[2]) :
        c \in { <<"s", JStr("v")>>, <<"s", NoValue>>, <<"S", NoValue>> }
              \cup { <<"a", v>> : v \in NestedValues },
        k \in JSONKeys }

\* the argument lists: one argument, or two: a string, a nested object or
\* an omitted string, and then a string, a nested object or a string that
\* is refused
JSONArgLists ==
    { <<>> } \cup { <<a>> : a \in JSONArgs }
    \cup { <<a, b>> : a \in { c \in JSONArgs : c[1] \in {"S", "a"}
                                               \/ c[3] = JStr("v") },
                     b \in { c \in JSONArgs : c[1] \in {"s", "a"} } }

InitJSON ==
    /\ ProgramAtRest
    /\ vsrc = NoSource
    /\ out = NoOut
    /\ jobj \in { NoJSON, [NoJSON EXCEPT !.object = NoValue,
                                          !.before = NoValue] }

JSONObjectAppend ==
    /\ jobj.object # NoValue
    /\ \E key \in JSONKeys, value \in JSONValues :
          LET r == virJSONValueObjectAppend(jobj.object, key, value)
          IN  jobj' = [NoJSON EXCEPT
                          !.object = r.object, !.before = jobj.object,
                          !.op = "append", !.key = key, !.offered = value,
                          !.value = r.value, !.rc = r.rc]
    /\ UNCHANGED <<vsrc, out>>
    /\ KeepProgram

JSONObjectPrependString ==
    /\ jobj.object # NoValue
    /\ \E key \in JSONKeys, value \in {"v"} :
          LET r == virJSONValueObjectPrependString(jobj.object, key, value)
          IN  jobj' = [NoJSON EXCEPT
                          !.object = r.object, !.before = jobj.object,
                          !.op = "prepend", !.key = key,
                          !.offered = JStr(value), !.value = r.value,
                          !.rc = r.rc]
    /\ UNCHANGED <<vsrc, out>>
    /\ KeepProgram

JSONObjectAdd ==
    /\ \E args \in JSONArgLists :
          LET r == virJSONValueObjectAdd(jobj.object, args)
          IN  jobj' = [NoJSON EXCEPT
                          !.object = r.obj, !.before = jobj.object,
                          !.op = "add", !.args = args, !.left = r.left,
                          !.rc = r.rc]
    /\ UNCHANGED <<vsrc, out>>
    /\ KeepProgram

JSONObjectRemoveKey ==
    /\ jobj.object # NoValue
    /\ \E key \in JSONKeys :
          LET r == virJSONValueObjectRemoveKey(jobj.object, key)
          IN  jobj' = [NoJSON EXCEPT
                          !.object = r.object, !.before = jobj.object,
                          !.op = "remove", !.key = key, !.value = r.value,
                          !.rc = r.rc]
    /\ UNCHANGED <<vsrc, out>>
    /\ KeepProgram

NextJSON ==
    \/ JSONObjectAppend
    \/ JSONObjectPrependString
    \/ JSONObjectAdd
    \/ JSONObjectRemoveKey

SpecJSON == InitJSON /\ [][NextJSON]_vars

(***************************************************************************)
(* Reopening one layer: qemuBlockReopenAccess and                          *)
(* qemuBlockReopenSliceExpand on a layer with its node names, its slice    *)
(* and its backing store.  The result is the thread state t, the layer     *)
(* src after the call and the properties props sent with blockdev-reopen   *)
(* (NoValue when none were sent).                                          *)
(***************************************************************************)

\* the slices of the model all have offset 0 and size 1
qemuBlockStorageSourceGetBlockdevStorageSliceProps(src, effective, resize) ==
    LET common(t) ==
            IF t.rc < 0 THEN NoValue
            ELSE IF qemuBlockStorageSourceAddBlockdevCommonProps(
                        t.obj, src, src.sliceStorage.nodename, effective).rc < 0
            THEN NoValue
            ELSE qemuBlockStorageSourceAddBlockdevCommonProps(
                     t.obj, src, src.sliceStorage.nodename, effective).obj
        geometry(t) ==
            IF t.rc < 0 \/ resize THEN t
            ELSE virJSONValueObjectAdd(t.obj,
                     << Arg("U", "offset", JNum(0)),
                        Arg("U", "size", JNum(1)) >>)
    IN  common(geometry(virJSONValueObjectAdd(NoValue,
            << Arg("s", "driver", JStr("raw")),
               Arg("s", "file",
                   qemuBlockStorageSourceGetStorageNodename(src)) >>)))

\* qemuMonitorBlockdevReopen between the monitor enter and exit
ReopenMonitor(s) ==
    LET reopen(e) ==
            IF e.rc < 0 THEN e
            ELSE qemuDomainObjExitMonitor(
                     IF Id("blockdev-reopen", 0, 0) \in e.rej
                     THEN Refused(e, "blockdev-reopen", NULL)
                     ELSE Accepted(e, "blockdev-reopen", NULL))
    IN  reopen(qemuDomainObjEnterMonitorAsync(s))

\* the properties of the effective node of the layer
ReopenAccessProps(src, backingStore) ==
    IF qemuBlockStorageSourceGetFormatNodename(src) # NoValue
    THEN qemuBlockStorageSourceGetFormatProps(src, backingStore)
    ELSE IF qemuBlockStorageSourceGetSliceNodename(src) # NoValue
    THEN qemuBlockStorageSourceGetBlockdevStorageSliceProps(src, TRUE, FALSE)
    ELSE qemuBlockStorageSourceGetBackendProps(src, {"EFFECTIVE_NODE"})

\* mutant: the flag of the layer keeps the requested state on the error path
ReopenAccessLayer_NoRestore(s, src, backingStore, readonly) ==
    LET new == [src EXCEPT !.readonly = readonly]
        sent(m) == [ t |-> m, src |-> new,
                     props |-> ReopenAccessProps(new, backingStore) ]
    IN  IF src.readonly = readonly
        THEN [ t |-> [s EXCEPT !.rc = 0], src |-> src, props |-> NoValue ]
        ELSE IF FormatHasBacking(src.format) /\ ~backingStore.present
        THEN [ t |-> [s EXCEPT !.rc = -1,
                               !.err = Cmd("reopen-unknown-backing", NULL)],
               src |-> src, props |-> NoValue ]
        ELSE IF ReopenAccessProps(new, backingStore) = NoValue
        THEN [ t |-> [s EXCEPT !.rc = -1, !.err = Cmd("reopen-props", NULL)],
               src |-> new, props |-> NoValue ]
        ELSE sent(ReopenMonitor(s))

\* qemuBlockReopenAccess on a layer given with its fields: src->readonly is
\* set before the properties are built and set back at the error label
ReopenAccessLayer(s, src, backingStore, readonly) ==
    LET new == [src EXCEPT !.readonly = readonly]
        error(m, props) == [ t |-> m, src |-> [new EXCEPT !.readonly = ~readonly],
                             props |-> props ]
        sent(m) ==
            IF m.rc < 0
            THEN error(m, IF m.log = <<>> THEN NoValue
                          ELSE ReopenAccessProps(new, backingStore))
            ELSE [ t |-> m, src |-> new,
                   props |-> ReopenAccessProps(new, backingStore) ]
    IN  IF src.readonly = readonly
        THEN [ t |-> [s EXCEPT !.rc = 0], src |-> src, props |-> NoValue ]
        ELSE IF FormatHasBacking(src.format) /\ ~backingStore.present
        THEN [ t |-> [s EXCEPT !.rc = -1,
                               !.err = Cmd("reopen-unknown-backing", NULL)],
               src |-> src, props |-> NoValue ]
        ELSE IF ReopenAccessProps(new, backingStore) = NoValue
        THEN error([s EXCEPT !.rc = -1, !.err = Cmd("reopen-props", NULL)],
                   NoValue)
        ELSE sent(ReopenMonitor(s))

\* the properties qemuBlockReopenSliceExpand reopens the layer with:
\* isEffective is computed inside the branch of a layer with a slice node
\* as the negation of that node name
ReopenSliceExpandProps(src, backingStore) ==
    IF qemuBlockStorageSourceGetSliceNodename(src) # NoValue
    THEN qemuBlockStorageSourceGetBlockdevStorageSliceProps(
             src, ~(qemuBlockStorageSourceGetSliceNodename(src) # NoValue),
             TRUE)
    ELSE qemuBlockStorageSourceGetFormatProps(src, backingStore)

\* the slice node becomes the format node and the slice is dropped
ReopenSliceExpandTransform(src) ==
    [(IF qemuBlockStorageSourceGetSliceNodename(src) # NoValue
      THEN qemuBlockStorageSourceSetFormatNodename(
               src, qemuBlockStorageSourceGetSliceNodename(src))
      ELSE src) EXCEPT !.sliceStorage = NoSlice]

qemuBlockReopenSliceExpand(s, src, backingStore) ==
    LET sent(m) ==
            [ t |-> m,
              src |-> IF m.rc < 0 THEN src ELSE ReopenSliceExpandTransform(src),
              props |-> IF m.log = <<>> THEN NoValue
                        ELSE ReopenSliceExpandProps(src, backingStore) ]
    IN  IF ~backingStore.present
        THEN [ t |-> [s EXCEPT !.rc = -1,
                               !.err = Cmd("reopen-unknown-backing", NULL)],
               src |-> src, props |-> NoValue ]
        ELSE IF ReopenSliceExpandProps(src, backingStore) = NoValue
        THEN [ t |-> [s EXCEPT !.rc = -1, !.err = Cmd("reopen-props", NULL)],
               src |-> src, props |-> NoValue ]
        ELSE sent(ReopenMonitor(s))

\* the layers that are reopened: raw and qcow2 images in a local file, with
\* and without a format node, a slice and a slice node, read-only or not,
\* with the discard the user asked for
ReopenSources ==
    { [NoSource EXCEPT
          !.nodenamestorage = JStr("libvirt-1-storage"),
          !.format = f, !.nodenameformat = nf, !.sliceStorage = sl,
          !.readonly = r, !.discard = d[1], !.detect_zeroes = d[2]] :
      f \in {"raw", "qcow2"},
      nf \in { JStr("libvirt-1-format"), NoValue },
      sl \in { NoSlice, [present |-> TRUE, nodename |-> NoValue],
               [present |-> TRUE, nodename |-> JStr("libvirt-1-slice")] },
      r \in BOOLEAN,
      d \in { <<"default", "default">>, <<"unmap", "unmap">> } }

\* src->backingStore: unknown, the terminator of the chain, or a layer
ReopenBackingStores ==
    { NoBackingStore, BackingTerminator,
      BackingLayer([NoSource EXCEPT
                       !.nodenamestorage = JStr("libvirt-2-storage"),
                       !.nodenameformat = JStr("libvirt-2-format")]) }

\* the requests the device manager or the domain can refuse
ReopenKeys == { Id("enter-monitor", 0, 0), Id("blockdev-reopen", 0, 0) }

\* out.backingStore holds src->backingStore of the layer vsrc
InitReopen ==
    /\ ProgramAtRest
    /\ vsrc \in ReopenSources
    /\ out \in { [NoOut EXCEPT !.backingStore = b] : b \in ReopenBackingStores }
    /\ jobj = NoJSON

\* the result r of a reopen operation becomes the program state
FinishReopen(r, op, flags) ==
    /\ vsrc' = r.src
    /\ out' = [out EXCEPT !.op = op, !.flags = flags, !.result = r.props]
    /\ log' = r.t.log
    /\ ret' = r.t.rc
    /\ lastErr' = r.t.err
    /\ UNCHANGED <<pc, mon, fdpassed, chain, filters, hist, job, disk, img,
                   nodedata, call, jobj, crt, fw>>

ReopenAccess ==
    \E readonly \in BOOLEAN : \E rej \in CreateRejects(ReopenKeys) :
       FinishReopen(ReopenAccessLayer(Thread(rej, {}), vsrc, out.backingStore,
                                      readonly),
                    "reopen-access",
                    IF readonly THEN {"readonly"} ELSE {})

ReopenSliceExpand ==
    \E rej \in CreateRejects(ReopenKeys) :
       FinishReopen(qemuBlockReopenSliceExpand(Thread(rej, {}), vsrc,
                                               out.backingStore),
                    "slice-expand", {})

NextReopen ==
    \/ ReopenAccess
    \/ ReopenSliceExpand

SpecReopen == InitReopen /\ [][NextReopen]_vars

(***************************************************************************)
(* qemuBlockStorageSourceCreateGeneric step by step: the thread crt        *)
(* creates the job, starts it, and updates it and waits while it runs;     *)
(* the device manager concludes the job at any time after it accepted      *)
(* blockdev-create.  crt.state is job->state, crt.qemu the status of the   *)
(* job in the device manager, crt.rc the variable ret.                     *)
(***************************************************************************)
MaxWaits == 2

\* qemuBlockJobIsRunning
qemuBlockJobIsRunning(state) ==
    state \in {"RUNNING", "READY", "ABORTING", "PIVOTING"}

\* the states the device manager concludes a job with
ConcludedStates == {"COMPLETED", "FAILED", "CANCELLED"}

\* job = qemuBlockJobNewCreate(...): return -1 without a job
GenericNewJob(c) ==
    IF Id("job-new", 0, 0) \in c.rej
    THEN [c EXCEPT !.pc = "returned", !.err = "job-new"]
    ELSE [c EXCEPT !.pc = "create", !.state = "NEW"]

\* blockdev-create inside the monitor, then qemuBlockJobStarted
GenericStart(c) ==
    IF Id("enter-monitor", 0, 0) \in c.rej
    THEN [c EXCEPT !.pc = "cleanup", !.err = "enter-monitor"]
    ELSE IF Id("blockdev-create", 0, 0) \in c.rej
    THEN [c EXCEPT !.pc = "cleanup", !.err = "blockdev-create"]
    ELSE [c EXCEPT !.pc = "update", !.qemu = "running",
                   !.state = IF @ = "NEW" THEN "RUNNING" ELSE @]

\* qemuBlockJobUpdate: the state the device manager reported becomes the
\* state of the job
GenericUpdate(c) ==
    [c EXCEPT !.pc = "test",
              !.state = IF c.qemu \in ConcludedStates THEN c.qemu ELSE @]

\* while (qemuBlockJobIsRunning(job))
GenericTest(c) ==
    [c EXCEPT !.pc = IF qemuBlockJobIsRunning(c.state) THEN "wait" ELSE "check"]

\* if (qemuDomainObjWait(vm) < 0) goto cleanup; the waits are counted up to
\* MaxWaits
GenericWait(c, rc) ==
    IF rc < 0
    THEN [c EXCEPT !.pc = "cleanup", !.err = "wait"]
    ELSE [c EXCEPT !.pc = "update",
                   !.waits = IF @ < MaxWaits THEN @ + 1 ELSE @]

\* mutant: only a FAILED job is an error
GenericCheck_OnlyFailed(c) ==
    IF c.state = "FAILED"
    THEN [c EXCEPT !.pc = "cleanup", !.err = "failed to format image"]
    ELSE [c EXCEPT !.pc = "cleanup", !.rc = 0]

\* the test of job->state after the loop; ret = 0
GenericCheck(c) ==
    IF c.state \in {"FAILED", "CANCELLED"}
    THEN [c EXCEPT !.pc = "cleanup",
                   !.err = IF c.state = "CANCELLED" /\ ~c.errmsg
                           THEN "blockdev-create job was cancelled"
                           ELSE "failed to format image"]
    ELSE [c EXCEPT !.pc = "cleanup", !.rc = 0]

\* cleanup: qemuBlockJobStartupFinalize(vm, job); return ret
GenericCleanup(c) ==
    [c EXCEPT !.pc = "returned", !.finalized = @ + 1,
              !.state = IF @ = "NEW" THEN "NONE" ELSE @]

\* int ret = -1 at the start of the call
InitCreateWait ==
    /\ BlockProgramAtRest
    /\ vsrc = NoSource /\ out = NoOut /\ jobj = NoJSON /\ fw = NoFirewall
    /\ crt \in { [NoCreateWait EXCEPT !.pc = "start", !.rc = -1, !.rej = rej] :
                 rej \in CreateRejects({ Id("job-new", 0, 0),
                                         Id("enter-monitor", 0, 0),
                                         Id("blockdev-create", 0, 0) }) }

KeepButCreate ==
    UNCHANGED <<pc, mon, fdpassed, chain, filters, log, lastErr, ret, hist,
                job, disk, img, nodedata, call, vsrc, out, jobj, fw>>

CreateGenericNewJob ==
    crt.pc = "start" /\ crt' = GenericNewJob(crt) /\ KeepButCreate

CreateGenericStart ==
    crt.pc = "create" /\ crt' = GenericStart(crt) /\ KeepButCreate

CreateGenericUpdate ==
    crt.pc = "update" /\ crt' = GenericUpdate(crt) /\ KeepButCreate

CreateGenericTest ==
    crt.pc = "test" /\ crt' = GenericTest(crt) /\ KeepButCreate

CreateGenericWait ==
    /\ crt.pc = "wait"
    /\ \E rc \in {0, -1} : crt' = GenericWait(crt, rc)
    /\ KeepButCreate

CreateGenericCheck ==
    crt.pc = "check" /\ crt' = GenericCheck(crt) /\ KeepButCreate

CreateGenericCleanup ==
    crt.pc = "cleanup" /\ crt' = GenericCleanup(crt) /\ KeepButCreate

\* the device manager concludes the job, with or without an error message
QemuJobConcludes ==
    /\ crt.qemu = "running"
    /\ \E state \in ConcludedStates : \E errmsg \in BOOLEAN :
          crt' = [crt EXCEPT !.qemu = state,
                             !.errmsg = errmsg /\ state # "COMPLETED"]
    /\ KeepButCreate

\* the steps of the thread
CreateGenericThread ==
    \/ CreateGenericNewJob
    \/ CreateGenericStart
    \/ CreateGenericUpdate
    \/ CreateGenericTest
    \/ CreateGenericWait
    \/ CreateGenericCheck
    \/ CreateGenericCleanup

NextCreateWait ==
    \/ CreateGenericNewJob
    \/ CreateGenericStart
    \/ CreateGenericUpdate
    \/ CreateGenericTest
    \/ CreateGenericWait
    \/ CreateGenericCheck
    \/ CreateGenericCleanup
    \/ QemuJobConcludes

SpecCreateWait == InitCreateWait /\ [][NextCreateWait]_vars

\* the thread keeps running: every wait returns; and the device manager
\* concludes the job it runs
FairSpecCreateWait ==
    /\ SpecCreateWait
    /\ WF_vars(CreateGenericThread)
    /\ WF_vars(QemuJobConcludes)

(***************************************************************************)
(* The firewall chain initialisation of the bridge driver                  *)
(* (bridge_driver_linux.c).  fw holds chainInitLock (0 when free, else the *)
(* thread that holds it), chainInitDone, the cached errors errInitV4 and   *)
(* errInitV6 ("NULL" or "error"), and the threads.  A thread calls         *)
(* networkAddFirewallRules or networkPreReloadFirewallRules and runs it    *)
(* statement by statement.  fw.unlocked collects the variables a thread    *)
(* accessed without holding the lock; th[t].seen4 and seen6 tell whether   *)
(* the error the thread found is still allocated ("live") or was freed by  *)
(* another thread ("stale").                                               *)
(***************************************************************************)
MaxCalls == 1

FwThreads == {1, 2}

NoFwThread ==
    [ pc |-> "idle", op |-> "none", force |-> FALSE, ipv4 |-> FALSE,
      ipv6 |-> FALSE, seen4 |-> "NULL", seen6 |-> "NULL", calls |-> 0,
      result |-> "none" ]

\* the call of the thread returns
FwReturn(f, t, result) ==
    [f EXCEPT !.th[t] = [NoFwThread EXCEPT !.calls = f.th[t].calls + 1,
                                            !.result = result]]

\* virLockGuardLock(&chainInitLock)
FwLock(f, t) == [f EXCEPT !.lock = t, !.th[t].pc = "check"]

\* if (chainInitDone && !force) return;
FwCheck(f, t) ==
    [f EXCEPT !.th[t].pc = IF f.chainInitDone /\ ~f.th[t].force
                           THEN "unlock" ELSE "clear4",
              !.unlocked = IF f.lock = t THEN @ ELSE @ \cup {"chainInitDone"}]

\* g_clear_pointer(&errInitV4, virFreeError): an error another thread found
\* is freed
FwClear4(f, t) ==
    [f EXCEPT !.errInitV4 = "NULL",
              !.th = [u \in FwThreads |->
                        IF u = t THEN [f.th[u] EXCEPT !.pc = "clear6"]
                        ELSE IF f.th[u].seen4 = "live"
                        THEN [f.th[u] EXCEPT !.seen4 = "stale"]
                        ELSE f.th[u]]]

\* g_clear_pointer(&errInitV6, virFreeError)
FwClear6(f, t) ==
    [f EXCEPT !.errInitV6 = "NULL",
              !.th = [u \in FwThreads |->
                        IF u = t THEN [f.th[u] EXCEPT !.pc = "setup4"]
                        ELSE IF f.th[u].seen6 = "live"
                        THEN [f.th[u] EXCEPT !.seen6 = "stale"]
                        ELSE f.th[u]]]

\* networkFirewallSetupPrivateChains(backend, VIR_FIREWALL_LAYER_IPV4)
FwSetup4(f, t, rc) ==
    [f EXCEPT !.errInitV4 = IF rc < 0 THEN "error" ELSE @,
              !.th[t].pc = "setup6"]

\* networkFirewallSetupPrivateChains(backend, VIR_FIREWALL_LAYER_IPV6)
FwSetup6(f, t, rc) ==
    [f EXCEPT !.errInitV6 = IF rc < 0 THEN "error" ELSE @,
              !.th[t].pc = "done"]

\* chainInitDone = true; the setups that were not forced are counted
FwDone(f, t) ==
    [f EXCEPT !.chainInitDone = TRUE,
              !.unforced = IF f.th[t].force THEN @ ELSE @ + 1,
              !.setups = @ + 1,
              !.th[t].pc = "unlock"]

\* the lock guard goes out of scope: networkSetupPrivateChains returns
FwUnlock(f, t) ==
    IF f.th[t].op = "add"
    THEN [f EXCEPT !.lock = 0, !.th[t].pc = "test4"]
    ELSE FwReturn([f EXCEPT !.lock = 0], t, "done")

\* if (errInitV4 && (the network has IPv4 addresses or routes))
FwTest4(f, t) ==
    [f EXCEPT !.unlocked = IF f.lock = t THEN @ ELSE @ \cup {"errInitV4"},
              !.th[t].seen4 = IF f.errInitV4 # "NULL" /\ f.th[t].ipv4
                              THEN "live" ELSE "NULL",
              !.th[t].pc = IF f.errInitV4 # "NULL" /\ f.th[t].ipv4
                           THEN "use4" ELSE "test6"]

\* virSetError(errInitV4); return -1: a freed error is read when another
\* thread cleared it since the test
FwUse4(f, t, outcome) ==
    FwReturn([f EXCEPT !.dangling = @ \/ f.th[t].seen4 = "stale"], t,
             IF f.th[t].seen4 = "stale" THEN outcome ELSE "errInitV4")

\* if (errInitV6 && (the network has IPv6 addresses or routes))
FwTest6(f, t) ==
    [f EXCEPT !.unlocked = IF f.lock = t THEN @ ELSE @ \cup {"errInitV6"},
              !.th[t].seen6 = IF f.errInitV6 # "NULL" /\ f.th[t].ipv6
                              THEN "live" ELSE "NULL",
              !.th[t].pc = IF f.errInitV6 # "NULL" /\ f.th[t].ipv6
                           THEN "use6" ELSE "rules"]

\* virSetError(errInitV6); return -1
FwUse6(f, t, outcome) ==
    FwReturn([f EXCEPT !.dangling = @ \/ f.th[t].seen6 = "stale"], t,
             IF f.th[t].seen6 = "stale" THEN outcome ELSE "errInitV6")

\* networkPreReloadFirewallRules up to its call of
\* networkSetupPrivateChains: chainInitDone is read before the lock is taken
FwPreReload(f, t, running) ==
    LET g == [f EXCEPT !.unlocked =
                          IF f.lock = t THEN @ ELSE @ \cup {"chainInitDone"}]
    IN  IF f.chainInitDone /\ f.th[t].force
        THEN [g EXCEPT !.th[t].pc = "lock", !.th[t].force = TRUE]
        ELSE IF ~running
        THEN FwReturn(g, t, "delayed")
        ELSE [g EXCEPT !.th[t].pc = "lock", !.th[t].force = FALSE]

\* what reading a freed error can give: the error it held, no error, or
\* anything else
StaleOutcomes == {"errInit", "no error", "undefined"}

InitFirewall ==
    /\ BlockProgramAtRest
    /\ vsrc = NoSource /\ out = NoOut /\ jobj = NoJSON /\ crt = NoCreateWait
    /\ fw = [NoFirewall EXCEPT !.th = [t \in FwThreads |-> NoFwThread]]

KeepButFirewall ==
    UNCHANGED <<pc, mon, fdpassed, chain, filters, log, lastErr, ret, hist,
                job, disk, img, nodedata, call, vsrc, out, jobj, crt>>

\* a thread calls networkAddFirewallRules for a network that may have IPv4
\* and IPv6 addresses or routes
AddFirewallRulesCall ==
    /\ \E t \in FwThreads : \E ipv4, ipv6 \in BOOLEAN :
          /\ fw.th[t].pc = "idle"
          /\ fw.th[t].calls < MaxCalls
          /\ fw' = [fw EXCEPT !.th[t].pc = "lock", !.th[t].op = "add",
                              !.th[t].force = FALSE, !.th[t].ipv4 = ipv4,
                              !.th[t].ipv6 = ipv6, !.th[t].result = "none"]
    /\ KeepButFirewall

\* a thread calls networkPreReloadFirewallRules
PreReloadFirewallRulesCall ==
    /\ \E t \in FwThreads : \E force \in BOOLEAN :
          /\ fw.th[t].pc = "idle"
          /\ fw.th[t].calls < MaxCalls
          /\ fw' = [fw EXCEPT !.th[t].pc = "pre", !.th[t].op = "prereload",
                              !.th[t].force = force, !.th[t].result = "none"]
    /\ KeepButFirewall

PreReloadTest ==
    /\ \E t \in FwThreads : \E running \in BOOLEAN :
          fw.th[t].pc = "pre" /\ fw' = FwPreReload(fw, t, running)
    /\ KeepButFirewall

SetupLock ==
    /\ \E t \in FwThreads :
          fw.th[t].pc = "lock" /\ fw.lock = 0 /\ fw' = FwLock(fw, t)
    /\ KeepButFirewall

SetupCheck ==
    /\ \E t \in FwThreads :
          fw.th[t].pc = "check" /\ fw' = FwCheck(fw, t)
    /\ KeepButFirewall

SetupClear4 ==
    /\ \E t \in FwThreads : fw.th[t].pc = "clear4" /\ fw' = FwClear4(fw, t)
    /\ KeepButFirewall

SetupClear6 ==
    /\ \E t \in FwThreads : fw.th[t].pc = "clear6" /\ fw' = FwClear6(fw, t)
    /\ KeepButFirewall

SetupChains4 ==
    /\ \E t \in FwThreads : \E rc \in {-1, 0} :
          fw.th[t].pc = "setup4" /\ fw' = FwSetup4(fw, t, rc)
    /\ KeepButFirewall

SetupChains6 ==
    /\ \E t \in FwThreads : \E rc \in {-1, 0} :
          fw.th[t].pc = "setup6" /\ fw' = FwSetup6(fw, t, rc)
    /\ KeepButFirewall

SetupDone ==
    /\ \E t \in FwThreads : fw.th[t].pc = "done" /\ fw' = FwDone(fw, t)
    /\ KeepButFirewall

SetupUnlock ==
    /\ \E t \in FwThreads : fw.th[t].pc = "unlock" /\ fw' = FwUnlock(fw, t)
    /\ KeepButFirewall

AddRulesTest4 ==
    /\ \E t \in FwThreads : fw.th[t].pc = "test4" /\ fw' = FwTest4(fw, t)
    /\ KeepButFirewall

AddRulesUse4 ==
    /\ \E t \in FwThreads : \E outcome \in StaleOutcomes :
          fw.th[t].pc = "use4" /\ fw' = FwUse4(fw, t, outcome)
    /\ KeepButFirewall

AddRulesTest6 ==
    /\ \E t \in FwThreads : fw.th[t].pc = "test6" /\ fw' = FwTest6(fw, t)
    /\ KeepButFirewall

AddRulesUse6 ==
    /\ \E t \in FwThreads : \E outcome \in StaleOutcomes :
          fw.th[t].pc = "use6" /\ fw' = FwUse6(fw, t, outcome)
    /\ KeepButFirewall

\* the rules of the network are added by the backend
AddRulesBackend ==
    /\ \E t \in FwThreads :
          fw.th[t].pc = "rules" /\ fw' = FwReturn(fw, t, "rules")
    /\ KeepButFirewall

NextFirewall ==
    \/ AddFirewallRulesCall
    \/ PreReloadFirewallRulesCall
    \/ PreReloadTest
    \/ SetupLock
    \/ SetupCheck
    \/ SetupClear4
    \/ SetupClear6
    \/ SetupChains4
    \/ SetupChains6
    \/ SetupDone
    \/ SetupUnlock
    \/ AddRulesTest4
    \/ AddRulesUse4
    \/ AddRulesTest6
    \/ AddRulesUse6
    \/ AddRulesBackend

SpecFirewall == InitFirewall /\ [][NextFirewall]_vars

(***************************************************************************)
(* Properties                                                              *)
(***************************************************************************)
CmdName(c) == c[1]
CmdId(c) == c[2]
IdKind(id) == id[1]
IdLayer(id) == id[2]
IdIdx(id) == id[3]

Count(l, id) == Cardinality({ i \in DOMAIN l : CmdId(l[i]) = id })

\* the sub-objects an attach data record flags as attached
FlaggedIds(d) ==
    ((IF d.chardevAdded THEN {d.chardevAlias} ELSE {})
     \cup (IF d.formatAttached THEN {d.formatNodeName} ELSE {})
     \cup (IF d.storageSliceAttached THEN {d.storageSliceNodeName} ELSE {})
     \cup (IF d.storageAttached THEN {d.storageNodeName} ELSE {})
     \cup { d.prmgrAlias, d.authsecretAlias, d.httpcookiesecretAlias,
            d.tlsAlias, d.tlsKeySecretAlias }
     \cup Range(d.encryptsecretAlias)
     \cup (IF d.fdpass \in fdpassed THEN {d.fdpass} ELSE {})) \ {NULL}

\* the teardown command that removes a sub-object of the given kind
TeardownOf(id) ==
    CASE IdKind(id) \in {"storage", "slice", "format", "cor"} -> "blockdev-del"
      [] IdKind(id) = "chardev" -> "chardev-remove"
      [] IdKind(id) = "fdset" -> "remove-fd"
      [] OTHER -> "object-del"

\* position of a sub-object in the order in which AttachApply creates them
ApplyRank(id) ==
    CASE IdKind(id) = "prmgr" -> 10
      [] IdKind(id) = "authsecret" -> 20
      [] IdKind(id) = "httpcookie" -> 30
      [] IdKind(id) = "tlskey" -> 40
      [] IdKind(id) = "tls" -> 50
      [] IdKind(id) = "fdset" -> 60
      [] IdKind(id) = "encrypt" -> 70 + IdIdx(id)
      [] IdKind(id) = "storage" -> 80
      [] IdKind(id) = "slice" -> 90
      [] IdKind(id) = "format" -> 100
      [] IdKind(id) = "chardev" -> 110
      [] OTHER -> 0

IsNode(id) == IdKind(id) \in {"storage", "slice", "format"}

\* the dependency objects a layer has
DepIds(src) ==
    ({ src.pr, src.secinfo, src.httpcookie, src.tlsKeySecret, src.tlsAlias,
       src.fdpass } \cup Range(src.encinfo)) \ {NULL}

\* C1: a failed AttachApply followed by AttachRollback whose teardown
\* commands succeed leaves the device manager as it was before the apply;
\* after an apply, failed or not, the sub-objects flagged attached are
\* exactly the ones this apply created.
C1_AllOrNothing ==
    /\ (pc = "layer_applied") =>
          FlaggedIds(chain.srcdata[1]) = mon \ hist.premon
    /\ (pc = "layer_rolledback" /\ hist.applyRet < 0 /\ hist.rejDel = {}) =>
          mon = hist.premon

\* Scenario D: slice and format, the format node is refused: rollback
\* removes the slice node, then the storage node.
C1_Witness ==
    /\ pc = "layer_rolledback"
    /\ hist.applyRet < 0
    /\ hist.rejDel = {}
    /\ lastErr = Cmd("blockdev-add", Id("format", 1, 0))
    /\ log = << <<"blockdev-del", Id("slice", 1, 0), TRUE>>,
                <<"blockdev-del", Id("storage", 1, 0), TRUE>> >>
    /\ hist.premon = {}

\* C2: AttachRollback issues exactly one teardown command for every
\* sub-object flagged attached and none for any other, and leaves the
\* attach data as it was.
C2_OneTeardownPerFlag ==
    (pc = "layer_rolledback") =>
        LET d == hist.chainAtStart.srcdata[1]
        IN  /\ \A i \in DOMAIN log :
                  /\ CmdId(log[i]) \in FlaggedIds(d)
                  /\ CmdName(log[i]) = TeardownOf(CmdId(log[i]))
            /\ \A id \in FlaggedIds(d) : Count(log, id) = 1
            /\ chain = hist.chainAtStart

\* a rollback after a partial apply that has to remove something but not
\* everything, and a rollback of data built by DetachPrepare
C2_Witness ==
    /\ pc = "layer_rolledback"
    /\ \/ /\ hist.applyRet < 0
          /\ Len(log) >= 3
          /\ Len(log) < Len(hist.applyLog)
       \/ /\ hist.applyRet = 0
          /\ chain.srcdata[1].storageProps = NULL
          /\ chain.srcdata[1].formatAttached
          /\ Len(log) >= 4

\* C3: the create commands of AttachApply come in the order PR manager,
\* auth secret, cookie secret, TLS key secret, TLS credentials, descriptor
\* transfer, (encryption secrets,) storage node, slice node, format node,
\* character device; every command before the last one succeeded, and a
\* node is created only after every dependency object of the layer.
C3_ApplyOrder ==
    (pc = "layer_applied") =>
        /\ \A i, j \in DOMAIN log :
              i < j => ApplyRank(CmdId(log[i])) < ApplyRank(CmdId(log[j]))
        /\ \A i \in DOMAIN log : ApplyRank(CmdId(log[i])) > 0
        /\ \A j \in DOMAIN log :
              (IsNode(CmdId(log[j])) /\ hist.srcs # <<>>) =>
                  \A dep \in DepIds(hist.srcs[1]) :
                      \E i \in 1..(j - 1) :
                          CmdId(log[i]) = dep /\ dep \in mon

\* a layer with every kind of sub-object, attached completely
C3_Witness ==
    /\ pc = "layer_applied"
    /\ ret = 0
    /\ Len(log) >= 10
    /\ \E i \in DOMAIN log : IdKind(CmdId(log[i])) = "encrypt"

\* position of a sub-object in the order in which AttachRollback removes them
RollbackRank(id) ==
    CASE IdKind(id) = "chardev" -> 10
      [] IdKind(id) = "format" -> 20
      [] IdKind(id) = "slice" -> 30
      [] IdKind(id) = "storage" -> 40
      [] IdKind(id) = "prmgr" -> 50
      [] IdKind(id) = "authsecret" -> 60
      [] IdKind(id) = "encrypt" -> 70 + IdIdx(id)
      [] IdKind(id) = "httpcookie" -> 80
      [] IdKind(id) = "tls" -> 90
      [] IdKind(id) = "tlskey" -> 100
      [] IdKind(id) = "fdset" -> 110
      [] OTHER -> 0

CmdOk(c) == c[3]

\* C5: after AttachRollback, the throttle filter rollback or the failure
\* cleanup of qemuBlockCommit, the last error is the error that was current
\* when the cleanup began, whichever teardown or revoke requests failed.
C5_ErrorPreserved ==
    (/\ pc \in {"layer_rolledback", "filters_rolledback", "commit_failed"}
     /\ hist.errAtStart # NoError)
        => lastErr = hist.errAtStart

\* a rollback after a failed apply in which a teardown command is refused
C5_Witness ==
    /\ pc = "layer_rolledback"
    /\ hist.applyRet < 0
    /\ hist.errAtStart # NoError
    /\ \E i \in DOMAIN log : ~CmdOk(log[i])

\* the same for the cleanup of a failed commit and for throttle filters
C5_WitnessCommit ==
    /\ pc = "commit_failed"
    /\ hist.errAtStart # NoError
    /\ \E i \in DOMAIN log : CmdName(log[i]) = "access-ro" /\ ~CmdOk(log[i])

C5_WitnessThrottle ==
    /\ pc = "filters_rolledback"
    /\ hist.errAtStart # NoError
    /\ \E i \in DOMAIN log : ~CmdOk(log[i])

\* C6: ChainAttach issues every create command of a layer's backing layer
\* before any create command of the layer, and the copy-on-read node last;
\* only the last command can have failed, and the layers above the layer
\* whose apply failed are untouched.  ChainDetach removes the copy-on-read
\* node first and then the layers top to bottom.
C6_ChainOrder ==
    /\ (pc = "chain_applied") =>
          /\ \A i, j \in DOMAIN log :
                i < j => IdLayer(CmdId(log[i])) >= IdLayer(CmdId(log[j]))
          /\ \A i \in DOMAIN log : i < Len(log) => CmdOk(log[i])
          /\ (ret < 0) =>
                /\ log # <<>>
                /\ ~CmdOk(log[Len(log)])
                /\ \A k \in DOMAIN chain.srcdata :
                      k < IdLayer(CmdId(log[Len(log)])) =>
                          chain.srcdata[k] = hist.chainAtStart.srcdata[k]
    /\ (pc \in {"chain_rolledback", "chain_detached"}) =>
          \A i, j \in DOMAIN log :
              i < j => IdLayer(CmdId(log[i])) <= IdLayer(CmdId(log[j]))

\* a chain of two layers whose top layer failed part-way, rolled back
C6_Witness ==
    /\ pc = "chain_rolledback"
    /\ hist.applyRet < 0
    /\ Len(chain.srcdata) >= 2
    /\ \E i \in DOMAIN hist.applyLog : IdLayer(CmdId(hist.applyLog[i])) = 2
    /\ Cardinality({ i \in DOMAIN hist.applyLog :
                        IdLayer(CmdId(hist.applyLog[i])) = 1 }) >= 2
    /\ \E i \in DOMAIN log : IdLayer(CmdId(log[i])) = 2
    /\ \E i \in DOMAIN log : IdLayer(CmdId(log[i])) = 1

\* C7: ChainDetach with the data ChainAttach worked on, teardown commands
\* succeeding, removes everything ChainAttach created, the copy-on-read
\* node included, and touches nothing else.
C7_ChainRollbackComplete ==
    (pc = "chain_rolledback" /\ hist.rejDel = {}) =>
        /\ mon = hist.premon
        /\ \A i \in DOMAIN log : CmdId(log[i]) \in hist.monAtStart \ hist.premon

\* the sub-step of a pivot a request belongs to: 1 attach of the deferred
\* backing chain, 2 snapshot transaction, 3 bitmap registration,
\* 4 job-complete; 0 for the teardown requests of a rollback
PivotStep(c) ==
    CASE CmdName(c) \in {"object-add", "blockdev-add", "add-fd", "chardev-add"} -> 1
      [] CmdName(c) = "transaction-snapshot" -> 2
      [] CmdName(c) = "transaction-bitmap-add" -> 3
      [] CmdName(c) = "job-complete" -> 4
      [] OTHER -> 0

PivotJobTypes == {"COPY", "ACTIVE_COMMIT"}

\* C8 as stated: a failure of any pivot sub-step makes the pivot fail, no
\* later sub-step is executed, the job stays READY and the mirror state
\* unchanged.
C8_AnyFailureKeepsReady ==
    (pc = "pivoted" /\ hist.prejob.state = "READY") =>
        \A i \in DOMAIN log :
            (PivotStep(log[i]) > 0 /\ ~CmdOk(log[i])) =>
                /\ ret < 0
                /\ job.state = "READY"
                /\ disk.mirrorState = hist.predisk.mirrorState
                /\ \A j \in DOMAIN log : j > i => PivotStep(log[j]) = 0

\* C8 amended: a failure of the attach of the deferred backing chain, of
\* the snapshot transaction or of job-complete makes the pivot fail, no
\* later sub-step is executed, and the job and the disk are unchanged (the
\* job READY); so are they after every failed pivot.  A refused bitmap
\* registration is ignored: job-complete is sent next and decides the
\* result.
C8_PivotFailure ==
    (pc = "pivoted" /\ hist.prejob.state = "READY") =>
        /\ \A i \in DOMAIN log :
              (PivotStep(log[i]) \in {1, 2, 4} /\ ~CmdOk(log[i])) =>
                  /\ ret < 0
                  /\ \A j \in DOMAIN log : j > i => PivotStep(log[j]) = 0
        /\ (ret < 0) => (job = hist.prejob /\ disk = hist.predisk)
        /\ \A i \in DOMAIN log :
              (PivotStep(log[i]) = 3 /\ ~CmdOk(log[i])) =>
                  /\ i = Len(log) - 1
                  /\ PivotStep(log[Len(log)]) = 4
                  /\ (ret = 0) = CmdOk(log[Len(log)])

\* the snapshot transaction is refused after the chain was attached
C8_Witness ==
    /\ pc = "pivoted"
    /\ hist.prejob.state = "READY"
    /\ ret < 0
    /\ job.state = "READY"
    /\ \E i \in DOMAIN log : PivotStep(log[i]) = 2 /\ ~CmdOk(log[i])
    /\ \E i \in DOMAIN log : PivotStep(log[i]) = 1

\* the bitmap registration is refused and the pivot goes through
C8_WitnessBitmap ==
    /\ pc = "pivoted"
    /\ ret = 0
    /\ job.state = "PIVOTING"
    /\ \E i \in DOMAIN log : PivotStep(log[i]) = 3 /\ ~CmdOk(log[i])

\* C9: the job becomes PIVOTING, and the mirror state PIVOT, only by a
\* pivot of a READY copy or active-commit job whose job-complete was
\* accepted; a pivot of a job in another state or of another type fails,
\* sends nothing and changes nothing.
C9_PivotingOnlyByPivot ==
    /\ [][ (\/ job'.state = "PIVOTING" /\ job.state # "PIVOTING"
            \/ disk'.mirrorState = "PIVOT" /\ disk.mirrorState # "PIVOT")
           => /\ job.state = "READY"
              /\ job.type \in PivotJobTypes
              /\ pc' = "pivoted"
              /\ log' # <<>>
              /\ log'[Len(log')] = <<"job-complete", JobName, TRUE>>
              /\ job'.state = "PIVOTING"
              /\ disk.mirror => disk'.mirrorState = "PIVOT" ]_vars
    /\ [](( /\ pc = "pivoted"
            /\ \/ hist.prejob.state # "READY"
               \/ hist.prejob.type \notin PivotJobTypes )
          => /\ ret < 0
             /\ log = <<>>
             /\ job = hist.prejob
             /\ disk = hist.predisk
             /\ mon = hist.premon)

\* an active commit started by qemuBlockCommit, converged and pivoted
C9_Witness ==
    /\ job.state = "PIVOTING"
    /\ job.type = "ACTIVE_COMMIT"
    /\ disk.mirrorState = "PIVOT"
    /\ pc = "pivoted"
    /\ hist.prejob.state = "READY"

\* a pivot of a job that is still running
C9_WitnessRefused ==
    /\ pc = "pivoted"
    /\ hist.prejob.state = "RUNNING"
    /\ ret < 0

\* C10: in one pivot the requests come in the order attach of the deferred
\* backing chain, snapshot transaction, bitmap registration, job-complete;
\* job-complete is sent only after every applicable earlier step was sent,
\* and the chain attach and the snapshot transaction are sent only for a
\* shallow copy into a reused image whose mirror has a backing layer.
C10_PivotOrder ==
    (pc = "pivoted") =>
        LET late == /\ hist.prejob.type = "COPY"
                    /\ ~hist.prejob.jobflagsmissing
                    /\ hist.prejob.shallow /\ hist.prejob.reuse
                    /\ hist.predisk.mirrorBacking # <<>>
            bitmap == \/ hist.prejob.type = "ACTIVE_COMMIT"
                      \/ hist.prejob.type = "COPY" /\ ~hist.prejob.jobflagsmissing
            steps == { i \in DOMAIN log : PivotStep(log[i]) > 0 }
            sent(k) == \E i \in steps : PivotStep(log[i]) = k
        IN  /\ \A i, j \in steps :
                  i < j => PivotStep(log[i]) <= PivotStep(log[j])
            /\ \A k \in {2, 3, 4} :
                  Cardinality({ i \in steps : PivotStep(log[i]) = k }) <= 1
            /\ sent(4) =>
                  /\ late =>
                        /\ \A id \in ChainIds(ChainAttachPrepareBlockdev(
                                                  hist.predisk.mirrorBacking)) :
                              \E i \in steps : CmdId(log[i]) = id /\ CmdOk(log[i])
                        /\ \E i \in steps : PivotStep(log[i]) = 2 /\ CmdOk(log[i])
                  /\ bitmap => sent(3)
            /\ ~late => (~sent(1) /\ ~sent(2))
            /\ ~bitmap => ~sent(3)

\* a pivot of a shallow copy into a reused image that sends all four steps
C10_Witness ==
    /\ pc = "pivoted"
    /\ ret = 0
    /\ Len(log) >= 4
    /\ PivotStep(log[1]) = 1
    /\ PivotStep(log[Len(log) - 2]) = 2
    /\ PivotStep(log[Len(log) - 1]) = 3
    /\ PivotStep(log[Len(log)]) = 4

\* C11: when the pivot of a READY shallow copy into a reused image fails to
\* attach the deferred backing chain of the mirror, it sends no snapshot
\* transaction, no bitmap registration and no job-complete, and the job
\* stays READY and the mirror state of the disk unchanged.
C11_ChainAttachFailureStops ==
    ( /\ pc = "pivoted"
      /\ hist.prejob.state = "READY"
      /\ hist.prejob.type = "COPY"
      /\ hist.prejob.shallow /\ hist.prejob.reuse
      /\ hist.predisk.mirrorBacking # <<>>
      /\ \E i \in DOMAIN log : PivotStep(log[i]) = 1 /\ ~CmdOk(log[i]) )
    => /\ ret < 0
       /\ \A j \in DOMAIN log : PivotStep(log[j]) \notin {2, 3, 4}
       /\ job.state = "READY"
       /\ job = hist.prejob
       /\ disk.mirrorState = hist.predisk.mirrorState

\* the second layer of the mirror's backing chain is refused after the first
\* was attached
C11_Witness ==
    /\ pc = "pivoted"
    /\ hist.prejob.state = "READY"
    /\ hist.prejob.shallow /\ hist.prejob.reuse
    /\ Len(hist.predisk.mirrorBacking) = 2
    /\ ret < 0
    /\ job.state = "READY"
    /\ \E i \in DOMAIN log : PivotStep(log[i]) = 1 /\ CmdOk(log[i])
    /\ \E i \in DOMAIN log : PivotStep(log[i]) = 1 /\ ~CmdOk(log[i])

\* C12: a failed pivot leaves the job READY and a failed finalize leaves
\* the job as it was, and a repeated request during which the device
\* manager refuses nothing of its own succeeds, whatever the failed attempt
\* left behind in the device manager.
C12_RetrySucceeds ==
    /\ [](( pc \in {"pivoted", "finalized"} /\ ret < 0 ) => job = hist.prejob)
    /\ [][ ( /\ pc = "pivoted" /\ pc' = "pivoted"
             /\ ret < 0
             /\ job.state = "READY" /\ job.type \in PivotJobTypes
             /\ hist.premon = {} )
           => (ret' = 0 /\ job'.state = "PIVOTING") ]_vars
    /\ [][ ( pc = "finalized" /\ pc' = "finalized" /\ ret < 0 )
           => (ret' = 0 /\ job' = job) ]_vars

\* layer k of the chain carries a bitmap of that name
Carries(k, name) ==
    /\ k \in DOMAIN nodedata
    /\ \E i \in DOMAIN nodedata[k] : nodedata[k][i].name = name

\* the bitmap of that name of layer k is recording, persistent and not
\* inconsistent
Sound(k, name) ==
    \A i \in DOMAIN nodedata[k] :
        nodedata[k][i].name = name =>
            /\ nodedata[k][i].recording
            /\ nodedata[k][i].persistent
            /\ ~nodedata[k][i].inconsistent

\* the validity of a bitmap name as the specification words it
ValidName(name) ==
    /\ Len(nodedata) >= 1
    /\ Carries(1, name)
    /\ \A k \in DOMAIN nodedata :
          Carries(k, name) => \A j \in 1..k : Carries(j, name)
    /\ \A k \in DOMAIN nodedata : Carries(k, name) => Sound(k, name)

\* C13: qemuBlockBitmapChainIsValid is true exactly when the bitmap exists
\* in the top layer, the layers carrying it are one run from the top and
\* each of them has it recording, persistent and not inconsistent; it is
\* false for an empty chain; evaluating it changes no metadata and
\* evaluating it again gives the same verdict.
C13_ChainIsValid ==
    /\ []( call.op = "valid" =>
              /\ call.valid = ValidName(call.a.bitmapname)
              /\ (nodedata = <<>> => ~call.valid)
              /\ call.a.data = nodedata )
    /\ [][ call'.op = "valid" =>
              /\ nodedata' = nodedata
              /\ ( call.op = "valid"
                   /\ call.a.bitmapname = call'.a.bitmapname )
                 => call'.valid = call.valid ]_vars

\* a bitmap carried by the two upper layers of three is valid
C13_Witness ==
    /\ call.op = "valid"
    /\ call.valid
    /\ Len(nodedata) = 3
    /\ Carries(2, call.a.bitmapname)
    /\ ~Carries(3, call.a.bitmapname)

\* a bitmap that reappears below a layer without it is not valid
C13_WitnessGap ==
    /\ call.op = "valid"
    /\ ~call.valid
    /\ Len(nodedata) = 3
    /\ Carries(1, call.a.bitmapname) /\ Sound(1, call.a.bitmapname)
    /\ ~Carries(2, call.a.bitmapname)
    /\ Carries(3, call.a.bitmapname) /\ Sound(3, call.a.bitmapname)

\* the actions of the last merge call of one of the types
ActionsOf(types) ==
    { i \in DOMAIN call.actions : call.actions[i].type \in types }

\* C14: the action list of qemuBlockGetBitmapMergeActions has no bitmap-add
\* and no bitmap-merge action for a bitmap name that is not valid from
\* topsrc, and no merge source naming such a bitmap; invalid bitmaps are
\* skipped without an error.
C14_InvalidSkipped ==
    (call.op = "merge") =>
        /\ \A name \in BitmapNames :
              ~qemuBlockBitmapChainIsValid(nodedata, call.a.topsrc, name) =>
                  /\ \A i \in ActionsOf({"bitmap-add", "bitmap-merge"}) :
                        /\ call.actions[i].name # name
                        /\ \A j \in DOMAIN call.actions[i].sources :
                              call.actions[i].sources[j][2] # name
        /\ call.a.fail = "none" => call.rc = 0

\* the top layer carries an invalid bitmap "a" and a valid bitmap "b"; all
\* bitmaps are asked for and only "b" is merged
C14_Witness ==
    /\ call.op = "merge"
    /\ call.a.bitmapname = ""
    /\ call.a.dstbitmapname = ""
    /\ Carries(1, "a")
    /\ ~qemuBlockBitmapChainIsValid(nodedata, 1, "a")
    /\ qemuBlockBitmapChainIsValid(nodedata, 1, "b")
    /\ call.rc = 0
    /\ \E i \in ActionsOf({"bitmap-merge"}) : call.actions[i].name = "b"

\* the bitmap names the last merge call handles: asked for and valid
MergedNames ==
    { name \in BitmapNames :
        /\ call.a.bitmapname \in {"", name}
        /\ qemuBlockBitmapChainIsValid(nodedata, call.a.topsrc, name) }

\* the layers from topsrc down to, excluding, basesrc that carry the bitmap
LayersMerged(name) ==
    { k \in DOMAIN nodedata :
        /\ k >= call.a.topsrc
        /\ call.a.basesrc # 0 => k < call.a.basesrc
        /\ Carries(k, name) }

\* one merge source for each of these layers, from the top down
ExpectedSources(name) ==
    [ i \in 1..Cardinality(LayersMerged(name)) |->
        << BitmapNodename(CHOOSE k \in LayersMerged(name) :
              Cardinality({ j \in LayersMerged(name) : j <= k }) = i),
           name >> ]

\* the merge sources of an action without the transient bitmap
RealSources(action) ==
    SelectSeq(action.sources, LAMBDA e : e[2] # TmpActiveWriteName)

\* C15: for each valid bitmap name the merge action lists exactly one
\* merge source (effective node of the layer, bitmap name) for every layer
\* from topsrc down to, excluding, basesrc (to the end of the chain when
\* there is no basesrc) that carries the bitmap, from the top down, and
\* none for basesrc or a layer below it.
C15_MergeSources ==
    (call.op = "merge" /\ call.rc = 0 /\ call.a.fail = "none") =>
        /\ Cardinality(ActionsOf({"bitmap-merge"})) = Cardinality(MergedNames)
        /\ \A i \in ActionsOf({"bitmap-merge"}) :
              \E name \in MergedNames :
                 /\ RealSources(call.actions[i]) = ExpectedSources(name)
                 /\ call.a.dstbitmapname = "" => call.actions[i].name = name
        /\ \A name \in MergedNames :
              \E i \in ActionsOf({"bitmap-merge"}) :
                 /\ RealSources(call.actions[i]) = ExpectedSources(name)
                 /\ call.a.dstbitmapname = "" => call.actions[i].name = name

\* all three layers carry the bitmap and the lowest is basesrc: the merge
\* has the two sources of the upper layers
C15_Witness ==
    /\ call.op = "merge"
    /\ call.rc = 0
    /\ Len(nodedata) = 3
    /\ call.a.basesrc = 3
    /\ Carries(3, "a")
    /\ \E i \in ActionsOf({"bitmap-merge"}) :
          RealSources(call.actions[i]) =
              << <<BitmapNodename(1), "a">>, <<BitmapNodename(2), "a">> >>

\* the granularity of the bitmap of the topmost layer the walk meets; 0
\* when it meets none
TopGranularity(name) ==
    IF LayersMerged(name) = {}
    THEN 0
    ELSE FirstBitmapByName(
             nodedata[CHOOSE k \in LayersMerged(name) :
                         \A j \in LayersMerged(name) : k <= j],
             name).granularity

\* action i - 1 is a bitmap-add of the bitmap on the target
AddBefore(i, name, persistent, disabled) ==
    /\ i > 1
    /\ call.actions[i - 1].type = "bitmap-add"
    /\ call.actions[i - 1].node = BitmapNodename(call.a.target)
    /\ call.actions[i - 1].name = name
    /\ call.actions[i - 1].persistent = persistent
    /\ call.actions[i - 1].disabled = disabled

\* C16: without a destination name each valid bitmap is merged into the
\* bitmap of the same name on the target's effective node, which a
\* bitmap-add before the merge creates persistent and active exactly when
\* the target does not carry that name; with a destination name the merge
\* goes into that name on the target, which a bitmap-add before the merge
\* creates non-persistent and disabled.  The created bitmap has the
\* granularity of the topmost layer's bitmap the walk met, also when lower
\* layers disagree.
C16_Destination ==
    (call.op = "merge" /\ call.rc = 0 /\ call.a.fail = "none") =>
        /\ \A i \in ActionsOf({"bitmap-merge"}) :
              /\ call.actions[i].node = BitmapNodename(call.a.target)
              /\ call.a.dstbitmapname = "" =>
                    /\ call.actions[i].name \in MergedNames
                    /\ AddBefore(i, call.actions[i].name, TRUE, FALSE)
                          <=> ~Carries(call.a.target, call.actions[i].name)
                    /\ AddBefore(i, call.actions[i].name, TRUE, FALSE) =>
                          call.actions[i - 1].granularity =
                              TopGranularity(call.actions[i].name)
              /\ call.a.dstbitmapname # "" =>
                    /\ call.actions[i].name = call.a.dstbitmapname
                    /\ AddBefore(i, call.a.dstbitmapname, FALSE, TRUE)
                    /\ \E name \in MergedNames :
                          /\ RealSources(call.actions[i]) = ExpectedSources(name)
                          /\ call.actions[i - 1].granularity = TopGranularity(name)
        /\ \A i \in ActionsOf({"bitmap-add"}) :
              /\ i < Len(call.actions)
              /\ call.actions[i + 1].type = "bitmap-merge"
              /\ call.a.dstbitmapname = "" =>
                    ~Carries(call.a.target, call.actions[i].name)

\* the two upper layers carry the bitmap with granularities 1 and 2; it is
\* merged into a new bitmap of the same name on an image outside the
\* chain, created with granularity 1
C16_Witness ==
    /\ call.op = "merge"
    /\ call.rc = 0
    /\ call.a.dstbitmapname = ""
    /\ call.a.target = ExternalImage
    /\ Len(nodedata) >= 2
    /\ FirstBitmapByName(nodedata[1], "a").granularity = 1
    /\ FirstBitmapByName(nodedata[2], "a").granularity = 2
    /\ \E i \in ActionsOf({"bitmap-add"}) :
          /\ call.actions[i].name = "a"
          /\ call.actions[i].persistent /\ ~call.actions[i].disabled
          /\ call.actions[i].granularity = 1
          /\ Len(call.actions[i + 1].sources) >= 2

\* a merge into a named destination bitmap of the top layer, which carries
\* the merged bitmap
C16_WitnessNamed ==
    /\ call.op = "merge"
    /\ call.rc = 0
    /\ call.a.dstbitmapname = "dst"
    /\ call.a.target = 1
    /\ \E i \in ActionsOf({"bitmap-add"}) :
          /\ call.actions[i].name = "dst"
          /\ ~call.actions[i].persistent /\ call.actions[i].disabled
          /\ call.actions[i].granularity = 2
          /\ call.actions[i + 1].name = "dst"

\* the merge source and the removal of the transient bitmap
TmpSource == << BitmapNodename(call.a.writebitmapsrc), TmpActiveWriteName >>

IsTmpRemove(action) ==
    /\ action.type = "bitmap-remove"
    /\ action.node = BitmapNodename(call.a.writebitmapsrc)
    /\ action.name = TmpActiveWriteName

\* C17: with a write-bitmap node the transient bitmap of that node is a
\* merge source, once, of every merge action, also of a merge that has no
\* other source, and the action list ends with the one action that removes
\* the transient bitmap, also when there is no valid bitmap and hence no
\* merge; without a write-bitmap node no action mentions the transient
\* bitmap.
C17_TransientBitmap ==
    (call.op = "merge" /\ call.rc = 0 /\ call.a.fail = "none") =>
        /\ call.a.writebitmapsrc # 0 =>
              /\ \A i \in ActionsOf({"bitmap-merge"}) :
                    /\ call.actions[i].sources =
                           Append(RealSources(call.actions[i]), TmpSource)
              /\ call.actions # <<>>
              /\ IsTmpRemove(call.actions[Len(call.actions)])
              /\ Cardinality(ActionsOf({"bitmap-remove"})) = 1
              /\ \A i \in DOMAIN call.actions :
                    call.actions[i].name = TmpActiveWriteName
                        => i = Len(call.actions)
        /\ call.a.writebitmapsrc = 0 =>
              \A i \in DOMAIN call.actions :
                  /\ call.actions[i].type # "bitmap-remove"
                  /\ call.actions[i].name # TmpActiveWriteName
                  /\ call.actions[i].sources = RealSources(call.actions[i])

\* basesrc is the top layer: the merge of the valid bitmap has the
\* transient bitmap as its only source, and the removal ends the list
C17_Witness ==
    /\ call.op = "merge"
    /\ call.rc = 0
    /\ call.a.writebitmapsrc = 1
    /\ call.a.basesrc = 1
    /\ Len(call.actions) >= 2
    /\ call.actions[Len(call.actions) - 1].type = "bitmap-merge"
    /\ call.actions[Len(call.actions) - 1].sources = << TmpSource >>
    /\ IsTmpRemove(call.actions[Len(call.actions)])

\* no bitmap of the chain is valid: the removal is the only action
C17_WitnessNoBitmap ==
    /\ call.op = "merge"
    /\ call.rc = 0
    /\ call.a.writebitmapsrc = 1
    /\ Carries(1, "a")
    /\ MergedNames = {}
    /\ Len(call.actions) = 1
    /\ IsTmpRemove(call.actions[1])

\* the layers a commit needs write access on: base, and the parent of top
\* when it exists and is not the disk's active layer
CommitLayers ==
    {BaseSource} \cup (IF img.tp = "backing" THEN {TopParent} ELSE {})

\* the requests of the last operation of that name and for that image
Requests(name, k) ==
    { i \in DOMAIN log : CmdName(log[i]) = name /\ CmdId(log[i]) = Image(k) }

\* write access on the layers of the commit is granted before block-commit
\* is sent, and no access is asked for a parent of top that is not of them
CommitGrantsFirst ==
    /\ \A i \in DOMAIN log :
          CmdName(log[i]) = "block-commit" =>
              \A k \in CommitLayers :
                  \E j \in Requests("access-rw", k) : j < i /\ CmdOk(log[j])
    /\ img.tp # "backing" =>
          /\ Requests("access-rw", TopParent) = {}
          /\ Requests("access-ro", TopParent) = {}

\* C18 as stated: write access on base and on the parent of top is granted
\* before block-commit is sent, and when a step from the first grant on
\* fails the write access on each of these layers is revoked before the
\* commit returns failure.
C18_AccessRevoked ==
    (pc \in {"commit_failed", "job"}) =>
        /\ CommitGrantsFirst
        /\ (pc = "commit_failed" /\ log # <<>>) =>
              \A k \in CommitLayers : img.grant[k] = "ro"

\* C18 amended: write access on base and on the parent of top is granted
\* before block-commit is sent; when a step from the first grant on fails,
\* one request to make the access read-only again is made for each of
\* these layers, after the grants and block-commit, and its result is
\* ignored: the access is read-only again where the request was accepted
\* and may stay read-write where it was refused.  A commit that started
\* revokes nothing.
C18_RevokeAttempted ==
    (pc \in {"commit_failed", "job"}) =>
        /\ CommitGrantsFirst
        /\ (pc = "commit_failed" /\ log # <<>>) =>
              \A k \in CommitLayers :
                  /\ Cardinality(Requests("access-ro", k)) = 1
                  /\ \A i \in Requests("access-ro", k) :
                        /\ \A j \in DOMAIN log :
                              CmdName(log[j]) \in {"access-rw", "block-commit"}
                                  => j < i
                        /\ CmdOk(log[i]) => img.grant[k] = "ro"
                        /\ ( ~CmdOk(log[i])
                             /\ \E j \in Requests("access-rw", k) : CmdOk(log[j]) )
                           => img.grant[k] = "rw"
        /\ pc = "job" =>
              \A i \in DOMAIN log : CmdName(log[i]) # "access-ro"

\* block-commit is refused after write access was granted on base and on
\* the parent of top, and both are read-only again
C18_Witness ==
    /\ pc = "commit_failed"
    /\ img.tp = "backing"
    /\ \E i \in DOMAIN log : CmdName(log[i]) = "block-commit" /\ ~CmdOk(log[i])
    /\ \A k \in CommitLayers :
          /\ \E j \in Requests("access-rw", k) : CmdOk(log[j])
          /\ \E j \in Requests("access-ro", k) : CmdOk(log[j])
          /\ img.grant[k] = "ro"

\* block-commit was sent by the last operation and accepted
CommitAccepted ==
    \E i \in DOMAIN log : CmdName(log[i]) = "block-commit" /\ CmdOk(log[i])

\* C19: qemuBlockCommit sets the mirror of the disk and the mirror job type
\* active-commit exactly when top is the active layer of the disk and
\* block-commit was accepted; after a commit below the active layer and
\* after every failed commit the disk has no mirror, and the disk never
\* has a mirror without a started job.
C19_MirrorOnlyActiveCommit ==
    /\ (pc = "commit_failed") =>
          /\ ~disk.mirror
          /\ disk.mirrorJob = "NONE"
          /\ job.state = "NONE"
    /\ (pc = "job" /\ hist.prejob = NoJob /\ job.state = "RUNNING"
           /\ job.type \in {"COMMIT", "ACTIVE_COMMIT"}) =>
          /\ CommitAccepted
          /\ disk.mirror = img.active
          /\ disk.mirrorJob = IF img.active THEN "ACTIVE_COMMIT" ELSE "NONE"
    /\ (job.type \in {"COMMIT", "ACTIVE_COMMIT"}) =>
          /\ disk.mirror = (job.type = "ACTIVE_COMMIT")
          /\ disk.mirror = img.active
          /\ disk.mirror = (disk.mirrorJob = "ACTIVE_COMMIT")
    /\ disk.mirror => job.state \notin {"NONE", "NEW"}

\* an active commit was started
C19_Witness ==
    /\ pc = "job"
    /\ job.type = "ACTIVE_COMMIT"
    /\ job.state = "RUNNING"
    /\ img.active
    /\ CommitAccepted
    /\ disk.mirror
    /\ disk.mirrorJob = "ACTIVE_COMMIT"

\* block-commit of an active commit was refused
C19_WitnessRefused ==
    /\ pc = "commit_failed"
    /\ img.active
    /\ \E i \in DOMAIN log : CmdName(log[i]) = "block-commit" /\ ~CmdOk(log[i])
    /\ ~disk.mirror

\* the state is the one a commit or a blockdev-create left
AfterJobStart ==
    \/ pc \in {"commit_failed", "created"}
    \/ /\ pc = "job"
       /\ hist.startup.created = 1
       /\ hist.prejob = NoJob

\* the start command of the job was sent by the last operation and accepted
StartAccepted ==
    \E i \in DOMAIN log :
        /\ CmdName(log[i]) \in {"block-commit", "blockdev-create"}
        /\ CmdOk(log[i])

\* C20: the job of qemuBlockCommit and of
\* qemuBlockStorageSourceCreateGeneric leaves NEW only after its start
\* command was accepted; when the start command is refused or not sent the
\* job is never started, and on every exit after the job object was made
\* qemuBlockJobStartupFinalize runs on it exactly once.
C20_StartedOnlyWhenAccepted ==
    /\ job.state # "NEW"
    /\ AfterJobStart =>
          /\ hist.startup.created \in {0, 1}
          /\ job.state # "NONE" => StartAccepted
          /\ ~StartAccepted =>
                /\ job.state = "NONE"
                /\ \A i \in DOMAIN hist.startup.finalized :
                      hist.startup.finalized[i] \in {"NONE", "NEW"}
          /\ hist.startup.created = 1 =>
                /\ Len(hist.startup.finalized) = 1
                /\ StartAccepted =>
                      hist.startup.finalized[1] \notin {"NONE", "NEW"}
                /\ ~StartAccepted => hist.startup.finalized[1] = "NEW"
          /\ hist.startup.created = 0 =>
                \A i \in DOMAIN hist.startup.finalized :
                    hist.startup.finalized[i] = "NONE"

\* blockdev-create was refused: the job was finalized once, as new job
C20_Witness ==
    /\ pc = "created"
    /\ ret < 0
    /\ \E i \in DOMAIN log : CmdName(log[i]) = "blockdev-create" /\ ~CmdOk(log[i])
    /\ hist.startup = [ created |-> 1, finalized |-> <<"NEW">> ]
    /\ job = NoJob

\* block-commit was accepted: the job was finalized once, as running job
C20_WitnessCommit ==
    /\ pc = "job"
    /\ StartAccepted
    /\ job.type = "COMMIT"
    /\ job.state = "RUNNING"
    /\ hist.startup = [ created |-> 1, finalized |-> <<"RUNNING">> ]


(***************************************************************************)
(* C21: in qemuBlockStorageSourceCreate, qemuBlockStorageSourceCreateGeneric,*)
(* qemuBlockCommit, qemuBlockPivot, qemuBlockFinalize and                  *)
(* qemuBlockReopenAccess every successful monitor enter is followed by     *)
(* exactly one monitor exit before the function returns or waits, the      *)
(* monitor is never entered twice without an exit in between, and the job  *)
(* wait loop waits only after a status refresh, with the monitor not       *)
(* entered.  In the lock trace of the last operation every enter is        *)
(* directly followed by its exit, every exit directly follows its enter,   *)
(* and every wait directly follows a job update.                           *)
(***************************************************************************)
C21_MonitorBalanced ==
    \A i \in DOMAIN hist.lock :
       /\ hist.lock[i] = "enter" =>
             i < Len(hist.lock) /\ hist.lock[i + 1] = "exit"
       /\ hist.lock[i] = "exit" => i > 1 /\ hist.lock[i - 1] = "enter"
       /\ hist.lock[i] = "wait" => i > 1 /\ hist.lock[i - 1] = "update"

\* an image creation that waited for a job, entered the monitor five times
\* and more, and failed with a rollback at the end
C21_Witness ==
    /\ pc = "image_created"
    /\ ret < 0
    /\ Enters(hist.lock) >= 5
    /\ \E i \in DOMAIN hist.lock : hist.lock[i] = "wait"
    /\ \E i \in DOMAIN log : CmdName(log[i]) = "blockdev-del"

\* a commit that reopened a data file and entered the monitor for its job
C21_WitnessCommit ==
    /\ pc = "job"
    /\ job.type = "COMMIT"
    /\ Enters(hist.lock) >= 2


\* the layer has a slice node: a slice with a node name
HasSliceNode == vsrc.sliceStorage.present /\ vsrc.sliceStorage.nodename # NoValue

(***************************************************************************)
(* C22: qemuBlockStorageSourceGetEffectiveNodename returns the format node *)
(* name if one is set, otherwise the slice node name if the layer has a    *)
(* slice node, otherwise the storage node name;                            *)
(* qemuBlockStorageSourceGetEffectiveStorageNodename returns the slice     *)
(* node name if the layer has a slice node, otherwise the storage node     *)
(* name.  After any sequence of set and clear operations that leaves the   *)
(* storage node name set both results are names (not NULL), and for a      *)
(* layer with neither slice nor format node the effective node is the      *)
(* storage node.                                                           *)
(***************************************************************************)
C22_EffectiveNodename ==
    /\ out.op = "effective-node" =>
          /\ vsrc.nodenameformat # NoValue => out.result = vsrc.nodenameformat
          /\ vsrc.nodenameformat = NoValue /\ HasSliceNode =>
                out.result = vsrc.sliceStorage.nodename
          /\ vsrc.nodenameformat = NoValue /\ ~HasSliceNode =>
                out.result = vsrc.nodenamestorage
    /\ out.op = "effective-storage-node" =>
          /\ HasSliceNode => out.result = vsrc.sliceStorage.nodename
          /\ ~HasSliceNode => out.result = vsrc.nodenamestorage
    /\ out.op \in {"effective-node", "effective-storage-node"}
          /\ vsrc.nodenamestorage # NoValue => out.result # NoValue

\* the effective node of a layer with a storage node and a slice node, and
\* no format node, is the slice node
C22_Witness ==
    /\ out.op = "effective-node"
    /\ vsrc.nodenamestorage # NoValue
    /\ HasSliceNode
    /\ vsrc.nodenameformat = NoValue
    /\ out.result = vsrc.sliceStorage.nodename

\* a slice without node name: the effective storage node is the storage node
C22_WitnessUnnamedSlice ==
    /\ out.op = "effective-storage-node"
    /\ vsrc.sliceStorage.present /\ vsrc.sliceStorage.nodename = NoValue
    /\ out.result = vsrc.nodenamestorage
    /\ out.result # NoValue


\* whether an object has one of the keys, itself or in a value nested at
\* any depth
RECURSIVE HasKeyAtAnyDepth(_, _)
HasKeyAtAnyDepth(v, keys) ==
    IF v[1] = "object"
    THEN \E i \in DOMAIN v[2] :
            v[2][i][1] \in keys \/ HasKeyAtAnyDepth(v[2][i][2], keys)
    ELSE IF v[1] = "array"
    THEN \E i \in DOMAIN v[2] : HasKeyAtAnyDepth(v[2][i], keys)
    ELSE FALSE

SecretKeys == {"password-secret", "cookie-secret", "key-secret", "tls-creds"}

AttachmentKeys ==
    {"node-name", "read-only", "auto-read-only", "cache", "discard"}

\* the keys that identify the image of a layer
IdentityKeys(src) ==
    CASE src.type \in {"file", "block"} -> {"driver", "filename"}
      [] src.type = "dir" -> {"driver", "dir"}
      [] src.type = "network" /\ src.nbdkit -> {"driver", "server"}
      [] src.type = "network" /\ ~src.nbdkit ->
            CASE src.protocol = "gluster" ->
                    {"driver", "volume", "path", "server"}
              [] src.protocol = "iscsi" ->
                    {"driver", "portal", "target", "lun"}
              [] src.protocol = "nbd" -> {"driver", "server", "export"}
              [] src.protocol = "rbd" -> {"driver", "pool", "image"}
              [] src.protocol \in {"ssh", "nfs"} ->
                    {"driver", "path", "server"}
              [] OTHER -> {"driver", "url"}
      [] OTHER -> {"driver"}

\* the layer with its credentials taken away: the authentication, the
\* cookie secret and the TLS credentials
WithoutCredentials(src) ==
    [src EXCEPT !.auth = FALSE, !.httpcookie = FALSE, !.tlsAlias = FALSE]

TargetOnlyBuilt ==
    /\ out.op = "backend"
    /\ "TARGET_ONLY" \in out.flags
    /\ out.result # NoValue

\* C23 (as stated): target-only backend properties hold no secret
\* reference at any depth and no per-attachment property, keep the fields
\* that identify the image, and are the same for two layers that differ
\* only in their credentials
C23_TargetOnlyHasNoSecrets ==
    TargetOnlyBuilt =>
        /\ ~HasKeyAtAnyDepth(out.result, SecretKeys)
        /\ \A k \in AttachmentKeys : ~virJSONValueObjectHasKey(out.result, k)
        /\ \A k \in IdentityKeys(vsrc) :
              virJSONValueObjectHasKey(out.result, k)
        /\ out.result = qemuBlockStorageSourceGetBackendProps(
                            WithoutCredentials(vsrc), out.flags)


\* the backend properties of a network layer, not served by nbdkit, were
\* asked for
NetworkBuilt ==
    /\ out.op = "backend"
    /\ vsrc.type = "network"
    /\ ~vsrc.nbdkit

\* every host of the list of the layer is a server of the properties, in
\* the order of the list
EveryHostEmitted ==
    LET server == virJSONValueObjectGet(out.result, "server")
    IN  /\ server[1] = "array"
        /\ virJSONValueArraySize(server) = Len(vsrc.hosts)
        /\ \A i \in DOMAIN vsrc.hosts :
              virJSONValueArrayGet(server, i) =
                  qemuBlockStorageSourceBuildJSONSocketAddress(vsrc.hosts[i])

C24_WitnessCurl ==
    /\ NetworkBuilt
    /\ vsrc.protocol = "http"
    /\ Len(vsrc.hosts) > 1
    /\ out.result = NoValue

\* the backend properties were built with the common properties, for an
\* internal layer or for the effective layer
CommonBuilt(effective) ==
    /\ out.op = "backend"
    /\ out.flags \cap {"LEGACY", "TARGET_ONLY"} = {}
    /\ ("EFFECTIVE_NODE" \in out.flags) = effective
    /\ out.result # NoValue

LocalLayer == vsrc.type \in {"file", "block"}

\* the common properties of the effective layer: read-only from the flag
\* of the layer, no auto-read-only, the discard and detect-zeroes modes of
\* the layer when they are not the default
EffectiveCommonProps ==
    CommonBuilt(TRUE) =>
        /\ virJSONValueObjectGet(out.result, "read-only")
              = JBool(vsrc.readonly)
        /\ ~virJSONValueObjectHasKey(out.result, "auto-read-only")
        /\ virJSONValueObjectGet(out.result, "discard")
              = (IF vsrc.discard = "default" THEN NoValue
                 ELSE JStr(vsrc.discard))
        /\ virJSONValueObjectHasKey(out.result, "detect-zeroes")
              = (vsrc.detect_zeroes # "default")

NeverBothReadOnlyProps ==
    (out.op = "backend" /\ out.result # NoValue) =>
        ~(/\ virJSONValueObjectHasKey(out.result, "read-only")
          /\ virJSONValueObjectHasKey(out.result, "auto-read-only"))

C25_WitnessEffective ==
    /\ CommonBuilt(TRUE)
    /\ vsrc.discard = "unmap"
    /\ vsrc.readonly

FormatBuilt == out.op = "format" /\ out.result # NoValue

\* the format properties are refused for a genuine backing layer under a
\* format without backing store, and "file" names the effective storage
\* node
FormatFileAndRefusal ==
    /\ (/\ out.op = "format"
        /\ BackingStoreIsBacking(out.backingStore)
        /\ ~FormatHasBacking(vsrc.format)) => out.result = NoValue
    /\ FormatBuilt =>
          virJSONValueObjectGet(out.result, "file")
              = qemuBlockStorageSourceGetEffectiveStorageNodename(vsrc)

\* C26 (as stated): "backing" is the effective node name of a genuine
\* backing layer, JSON null for the terminator of the chain, and absent
\* when no backing layer is given; a genuine backing layer under a format
\* without backing store is refused; "file" names the effective storage
\* node of the layer
C26_NullForTerminator ==
    /\ FormatFileAndRefusal
    /\ FormatBuilt =>
          IF BackingStoreIsBacking(out.backingStore)
          THEN virJSONValueObjectGet(out.result, "backing")
                   = qemuBlockStorageSourceGetEffectiveNodename(
                         out.backingStore.src)
          ELSE IF out.backingStore.present
          THEN virJSONValueObjectGet(out.result, "backing") = JNull
          ELSE ~virJSONValueObjectHasKey(out.result, "backing")

\* C26: under a format that can have a backing store, "backing" is the
\* effective node name of a genuine backing layer, JSON null for the
\* terminator of the chain, and absent when no backing layer is given;
\* under any other format "backing" is absent, also for the terminator,
\* and a genuine backing layer is refused; "file" names the effective
\* storage node of the layer
C26_Backing ==
    /\ FormatFileAndRefusal
    /\ FormatBuilt =>
          IF ~FormatHasBacking(vsrc.format) \/ ~out.backingStore.present
          THEN ~virJSONValueObjectHasKey(out.result, "backing")
          ELSE IF BackingStoreIsBacking(out.backingStore)
          THEN virJSONValueObjectGet(out.result, "backing")
                   = qemuBlockStorageSourceGetEffectiveNodename(
                         out.backingStore.src)
          ELSE virJSONValueObjectGet(out.result, "backing") = JNull

\* a raw layer was formatted with the terminator of its chain
C26_Witness ==
    /\ FormatBuilt
    /\ vsrc.format = "raw"
    /\ out.backingStore = BackingTerminator

\* a qcow2 layer was formatted with the terminator, and one with a
\* genuine backing layer
C26_WitnessNull ==
    /\ FormatBuilt
    /\ vsrc.format = "qcow2"
    /\ out.backingStore = BackingTerminator
    /\ virJSONValueObjectGet(out.result, "backing") = JNull

C26_WitnessBacking ==
    /\ FormatBuilt
    /\ vsrc.format = "qcow2"
    /\ BackingStoreIsBacking(out.backingStore)
    /\ virJSONValueObjectGet(out.result, "backing") = JStr("libvirt-2-format")

\* the pairs of an object, none for no object
PairsOf(object) == IF object = NoValue THEN <<>> ELSE Pairs(object)

NoDuplicateKeys(object) ==
    \A i, j \in DOMAIN PairsOf(object) :
        PairsOf(object)[i][1] = PairsOf(object)[j][1] => i = j

IsPrefix(p, q) == Len(p) <= Len(q) /\ SubSeq(q, 1, Len(p)) = p

\* an insert of one pair: refused without any change when the key is
\* present, else the pair is put at the end (or the front) and the
\* caller's pointer is cleared
InsertedOrRefused(prepend) ==
    IF virJSONValueObjectHasKey(jobj.before, jobj.key)
    THEN /\ jobj.rc = -1
         /\ jobj.object = jobj.before
         /\ jobj.value = jobj.offered
    ELSE /\ jobj.rc = 0
         /\ Pairs(jobj.object) =
               (IF prepend
                THEN << <<jobj.key, jobj.offered>> >> \o Pairs(jobj.before)
                ELSE Append(Pairs(jobj.before), <<jobj.key, jobj.offered>>))
         /\ jobj.value = NoValue

\* a typed add puts its pairs behind the pairs of the object; a nested
\* value that was inserted is no longer the caller's, and one whose key
\* was present is
TypedAdded ==
    /\ IF jobj.before = NoValue /\ jobj.rc # 1
       THEN jobj.object = NoValue
       ELSE IsPrefix(PairsOf(jobj.before), Pairs(jobj.object))
    /\ \A i \in DOMAIN jobj.args :
          jobj.args[i][1] = "a" =>
             /\ (\E n \in DOMAIN PairsOf(jobj.object) :
                    /\ n > Len(PairsOf(jobj.before))
                    /\ PairsOf(jobj.object)[n]
                          = <<jobj.args[i][2], jobj.args[i][3]>>
                    /\ \A j \in 1..(i - 1) : jobj.args[j][2] # jobj.args[i][2])
                   => jobj.left[i] = NoValue
             /\ virJSONValueObjectHasKey(jobj.before, jobj.args[i][2])
                   => (jobj.rc = -1 /\ jobj.left[i] = jobj.args[i][3])

\* the pairs left by a removal are the other pairs in their order
Removed ==
    /\ jobj.rc = (IF virJSONValueObjectHasKey(jobj.before, jobj.key)
                  THEN 1 ELSE 0)
    /\ Pairs(jobj.object) =
          SelectSeq(Pairs(jobj.before), LAMBDA pair : pair[1] # jobj.key)

\* C27: no two pairs of the object have the same key; an append puts the
\* pair behind the pairs of the object and a typed add puts its pairs
\* there in their order, so that appended pairs stay in the order of their
\* insertion; an insert of a key that is present fails, changes nothing
\* and leaves the value with the caller; an insert of a nested value that
\* succeeds clears the pointer of the caller
C27_ObjectKeys ==
    /\ NoDuplicateKeys(jobj.object)
    /\ jobj.op = "append" => InsertedOrRefused(FALSE)
    /\ jobj.op = "prepend" => InsertedOrRefused(TRUE)
    /\ jobj.op = "add" => TypedAdded
    /\ jobj.op = "remove" => Removed

\* an append of a nested value to an object that has its key
C27_Witness ==
    /\ jobj.op = "append"
    /\ virJSONValueObjectHasKey(jobj.before, jobj.key)
    /\ jobj.offered \in NestedValues
    /\ Len(Pairs(jobj.before)) = MaxKeys

\* a nested value went into the object by a typed add, behind a pair that
\* was prepended
C27_WitnessNested ==
    /\ jobj.op = "add"
    /\ jobj.rc = 1
    /\ Len(PairsOf(jobj.before)) > 0
    /\ \E i \in DOMAIN jobj.args :
          /\ jobj.args[i][3] \in NestedValues
          /\ jobj.left[i] = NoValue

\* C28 (as stated): a pivot that fails in the attach of the deferred
\* backing chain or in the snapshot transaction, its teardown commands
\* accepted, leaves the device manager as it was before the call
C28_PivotCleansUp ==
    (/\ pc = "pivoted"
     /\ ret < 0
     /\ hist.rejDel = {}
     /\ \E i \in DOMAIN log :
           PivotStep(log[i]) \in {1, 2} /\ ~CmdOk(log[i])) =>
        mon = hist.premon

\* the layers of a commit that exist: base, and then its data file, the
\* parent of top when it is a backing image, and the data file of that
LayerOfCommit(k) ==
    CASE k = BaseSource -> TRUE
      [] k = BaseDataFile -> hist.preimg.baseDf
      [] k = TopParent -> hist.preimg.tp = "backing"
      [] k = TopParentDataFile ->
            hist.preimg.tp = "backing" /\ hist.preimg.tpDf

\* write access on the layer was granted by this call
GrantCompleted(k) == \E i \in Requests("access-rw", k) : CmdOk(log[i])

CommitCleanedUp == pc = "commit_failed" /\ log # <<>>

ReopenedReadWrite(k) ==
    \E i \in Requests("reopen-rw", k) :
        /\ CmdOk(log[i])
        /\ \A j \in 1..i : CmdName(log[j]) # "access-ro"

\* no request of the cleanup was refused
CleanupAccepted ==
    \A i \in DOMAIN log :
        CmdName(log[i]) \in {"access-ro", "reopen-ro"} => CmdOk(log[i])

\* C30 (as stated): after a failed commit that had reopened the data file
\* of base or of the parent of top read-write, and whose cleanup was
\* refused nothing, the read-only flag of the data file and its open mode
\* in the device manager are what they were before the call
C30_DataFilesReadOnlyAgain ==
    (CommitCleanedUp /\ CleanupAccepted) =>
        \A k \in {BaseDataFile, TopParentDataFile} :
            ReopenedReadWrite(k) =>
                /\ img.readonly[k] = hist.preimg.readonly[k]
                /\ img.mode[k] = hist.preimg.mode[k]

\* the requests of the last operation that create something or change an
\* access grant: the requests of a rollback remove
CreateForward ==
    { i \in DOMAIN log : CmdName(log[i]) \notin {"blockdev-del", "object-del"} }

\* the storage node was requested before request i
StorageRequestedBefore(i) ==
    \E h \in 1..(i - 1) : /\ CmdName(log[h]) = "blockdev-add"
                          /\ IdKind(CmdId(log[h])) = "storage"

\* the step of qemuBlockStorageSourceCreate request i belongs to: the write
\* grant, the storage dependencies, the format dependencies, the storage
\* creation job, the storage node, the format creation job, the revocation
\* of the write grant, the format node
CreateStepOf(i) ==
    LET c == log[i]
    IN  IF CmdName(c) = "access-rw" THEN 0
        ELSE IF CmdName(c) = "object-add"
        THEN (IF IdKind(CmdId(c)) = "encrypt" THEN 2 ELSE 1)
        ELSE IF CmdName(c) = "blockdev-create"
        THEN (IF StorageRequestedBefore(i) THEN 5 ELSE 3)
        ELSE IF CmdName(c) = "blockdev-add"
        THEN (IF IdKind(CmdId(c)) = "storage" THEN 4 ELSE 7)
        ELSE 6

\* the creation job request i started: the first or the second of the call
CreateJobOf(i) ==
    Cardinality({ h \in 1..i : CmdName(log[h]) = "blockdev-create" })

\* the domain is active when the image creation returns
ActiveAfterCreate ==
    /\ Id("enter-monitor", 0, 0) \notin hist.rej
    /\ \A k \in 1..Len(hist.lock) :
          Id("domain-died", 0, k) \in hist.rej => Enters(hist.lock) < k

(***************************************************************************)
(* C31: qemuBlockStorageSourceCreate performs its steps in the order       *)
(* dependency objects (storage, then format), storage creation job,        *)
(* storage node, format creation job, format node, each step only after    *)
(* the step before it succeeded; when a step fails and the domain is still *)
(* active, the rollback removes every object and node attached so far; an  *)
(* image with a storage slice is refused before any request.  After an     *)
(* image creation: the requests that create follow the order of the steps, *)
(* at most one creation job precedes the storage node, every request       *)
(* before another creating request was accepted, a job that did not        *)
(* complete is the last job and is followed by no creating request, a      *)
(* successful creation added the storage node, a failed one with the       *)
(* domain active left the device manager as it was, and a layer with a     *)
(* slice sent nothing.                                                     *)
(***************************************************************************)
C31_CreateOrder ==
    pc = "image_created" =>
        /\ \A i, j \in CreateForward :
              i < j => /\ CreateStepOf(i) <= CreateStepOf(j)
                       /\ CmdOk(log[i])
                       /\ CmdName(log[i]) = "blockdev-create" =>
                             /\ CreateStepOf(i) < CreateStepOf(j)
                             /\ hist.startup.finalized[CreateJobOf(i)] = "COMPLETED"
        /\ \A i \in CreateForward : \A j \in DOMAIN log \ CreateForward : i < j
        /\ ret = 0 =>
              /\ \E i \in DOMAIN log : /\ log[i] = <<"blockdev-add",
                                                     Id("storage", 1, 0), TRUE>>
              /\ \A i \in DOMAIN hist.startup.finalized :
                    hist.startup.finalized[i] = "COMPLETED"
              /\ CreateForward = DOMAIN log
        /\ ret < 0 /\ ActiveAfterCreate => mon = hist.premon
        /\ chain.srcdata[1].storageSliceProps # NULL =>
              ret < 0 /\ log = <<>> /\ mon = hist.premon

\* a creation with both jobs that failed at the format node, with the
\* domain active: the storage node and the dependencies were removed again
C31_Witness ==
    /\ pc = "image_created"
    /\ ret < 0
    /\ ActiveAfterCreate
    /\ Len(hist.startup.finalized) = 2
    /\ \E i \in DOMAIN log : log[i] = <<"blockdev-add", Id("format", 1, 0), FALSE>>
    /\ \E i \in DOMAIN log : log[i] = <<"object-add", Id("encrypt", 1, 1), TRUE>>
    /\ \E i \in DOMAIN log : log[i] = <<"blockdev-del", Id("storage", 1, 0), TRUE>>

\* a layer with a slice was refused
C31_WitnessSlice ==
    /\ pc = "image_created"
    /\ chain.srcdata[1].storageSliceProps # NULL
    /\ ret < 0

\* the image creation was granted write access to its image
CreateGranted ==
    \E i \in DOMAIN log : log[i] = <<"access-rw", Image(CreateSource), TRUE>>

(***************************************************************************)
(* C32: for a read-only image the write access that                        *)
(* qemuBlockStorageSourceCreate grants for the formatting is revoked on    *)
(* every exit path, also on every failure after the grant.  After an image *)
(* creation that was granted write access and in which no request to set   *)
(* the access back was refused, the access grant of the image is read-only *)
(* as it was before the call.                                              *)
(***************************************************************************)
C32_WriteAccessRevoked ==
    pc = "image_created" /\ CreateGranted
    /\ Id("access-ro", CreateSource, 0) \notin hist.rej
        => img.grant[CreateSource] = "ro"

\* the device manager accepted a blockdev-reopen in the step
ReopenAccepted(l) ==
    \E i \in DOMAIN l : l[i] = <<"blockdev-reopen", NULL, TRUE>>

(***************************************************************************)
(* C33: qemuBlockReopenAccess sends no request and changes nothing when    *)
(* the layer already has the requested read-only state.  Otherwise the     *)
(* read-only flag of the layer is the requested state after a success,     *)
(* which sent an accepted blockdev-reopen, and its value of before the     *)
(* call after every failure (properties not built, monitor not entered,    *)
(* reopen refused); a layer whose format can have a backing store and      *)
(* whose backing store is unknown is refused without a request and with    *)
(* the flag as it was.  No other field of the layer changes.               *)
(***************************************************************************)
C33_ReopenAccess ==
    [][ out'.op = "reopen-access" =>
          /\ vsrc' = [vsrc EXCEPT !.readonly = vsrc'.readonly]
          /\ vsrc.readonly = ("readonly" \in out'.flags) =>
                vsrc' = vsrc /\ log' = <<>> /\ ret' = 0
          /\ vsrc.readonly # ("readonly" \in out'.flags) =>
                /\ ret' = 0 => /\ vsrc'.readonly = ("readonly" \in out'.flags)
                               /\ ReopenAccepted(log')
                               /\ out'.result # NoValue
                /\ ret' < 0 => vsrc' = vsrc /\ ~ReopenAccepted(log')
                /\ FormatHasBacking(vsrc.format) /\ ~out.backingStore.present =>
                      ret' < 0 /\ log' = <<>>
      ]_vars

\* a reopen to read-write that the device manager refused: the layer is
\* read-only as before
C33_Witness ==
    /\ out.op = "reopen-access"
    /\ out.flags = {}
    /\ ret < 0
    /\ log = << <<"blockdev-reopen", NULL, FALSE>> >>
    /\ vsrc.readonly

\* a successful reopen to read-only
C33_WitnessSuccess ==
    /\ out.op = "reopen-access"
    /\ out.flags = {"readonly"}
    /\ ret = 0
    /\ ReopenAccepted(log)
    /\ vsrc.readonly

\* the properties of the reopen could not be built
C33_WitnessProps ==
    /\ out.op = "reopen-access"
    /\ ret < 0
    /\ lastErr = Cmd("reopen-props", NULL)

\* a qcow2 layer with unknown backing store was refused
C33_WitnessUnknownBacking ==
    /\ out.op = "reopen-access"
    /\ ret < 0
    /\ lastErr = Cmd("reopen-unknown-backing", NULL)

\* the actions of the last call remove the transient bitmap of the writes
\* from the node of image k
RemovesTmpActiveWrite(k) ==
    \E i \in DOMAIN call.actions :
       /\ call.actions[i].type = "bitmap-remove"
       /\ call.actions[i].node = BitmapNodename(k)
       /\ call.actions[i].name = TmpActiveWriteName

(***************************************************************************)
(* C34: the transient bitmap 'libvirt-tmp-activewrite' that qemuBlockPivot *)
(* registers on the mirror of a copy job and on the base of an active      *)
(* commit is removed by the bitmap handling of the job, for every format   *)
(* of the destination, raw included: the actions of a successful           *)
(* qemuBlockBitmapsHandleBlockcopy hold a bitmap-remove of it on the node  *)
(* of the mirror, and the actions of a successful                          *)
(* qemuBlockBitmapsHandleCommitFinish with active = true hold one on the   *)
(* node of the base.                                                       *)
(***************************************************************************)
C34_TmpBitmapRemoved ==
    /\ call.op = "blockcopy" /\ call.rc = 0 =>
          RemovesTmpActiveWrite(ExternalImage)
    /\ call.op = "commit-finish" /\ "active" \in call.flags /\ call.rc = 0 =>
          RemovesTmpActiveWrite(call.a.basesrc)

\* the same for the destinations that are not raw images
C34_TmpBitmapRemovedUnlessRaw ==
    /\ call.op = "blockcopy" /\ call.rc = 0 /\ call.format # "raw" =>
          RemovesTmpActiveWrite(ExternalImage)
    /\ call.op = "commit-finish" /\ "active" \in call.flags /\ call.rc = 0
       /\ call.format # "raw" =>
          RemovesTmpActiveWrite(call.a.basesrc)

(***************************************************************************)
(* C35: no action list of qemuBlockGetBitmapMergeActions holds two         *)
(* bitmap-add actions of the same node and bitmap name, for every          *)
(* combination of the arguments.                                           *)
(***************************************************************************)
C35_NoDuplicateAdd ==
    call.op = "merge" =>
        \A i, j \in DOMAIN call.actions :
           ( /\ i < j
             /\ call.actions[i].type = "bitmap-add"
             /\ call.actions[j].type = "bitmap-add" )
           => ~( /\ call.actions[i].node = call.actions[j].node
                 /\ call.actions[i].name = call.actions[j].name )

\* the same for the calls without a name of the destination bitmap
C35_NoDuplicateAddSameName ==
    call.op = "merge" /\ call.a.dstbitmapname = "" =>
        \A i, j \in DOMAIN call.actions :
           ( /\ i < j
             /\ call.actions[i].type = "bitmap-add"
             /\ call.actions[j].type = "bitmap-add" )
           => ~( /\ call.actions[i].node = call.actions[j].node
                 /\ call.actions[i].name = call.actions[j].name )

\* the node names the layer refers to: storage, slice and format node
LayerNodenames(src) ==
    { qemuBlockStorageSourceGetStorageNodename(src),
      qemuBlockStorageSourceGetSliceNodename(src),
      qemuBlockStorageSourceGetFormatNodename(src) } \ {NoValue}

(***************************************************************************)
(* C36: after a successful qemuBlockReopenSliceExpand the layer has no     *)
(* slice, its effective node name is the one of before the call, and no    *)
(* node name the layer referred to before the call (storage, slice or      *)
(* format node) is dropped from the layer, as the device manager still has *)
(* every node: the call reopens one node and deletes none.  After a failed *)
(* call the layer is unchanged.                                            *)
(***************************************************************************)
C36_SliceExpand ==
    [][ out'.op = "slice-expand" =>
          /\ ret' = 0 =>
                /\ ~vsrc'.sliceStorage.present
                /\ qemuBlockStorageSourceGetEffectiveNodename(vsrc')
                      = qemuBlockStorageSourceGetEffectiveNodename(vsrc)
                /\ LayerNodenames(vsrc) \subseteq LayerNodenames(vsrc')
          /\ ret' < 0 => vsrc' = vsrc
      ]_vars

\* the same for the layers that do not have a format node and a slice node
\* at once
C36_SliceExpandOneUpperNode ==
    [][ ( /\ out'.op = "slice-expand"
          /\ ~( /\ qemuBlockStorageSourceGetFormatNodename(vsrc) # NoValue
                /\ qemuBlockStorageSourceGetSliceNodename(vsrc) # NoValue ) ) =>
          /\ ret' = 0 =>
                /\ ~vsrc'.sliceStorage.present
                /\ qemuBlockStorageSourceGetEffectiveNodename(vsrc')
                      = qemuBlockStorageSourceGetEffectiveNodename(vsrc)
                /\ LayerNodenames(vsrc) \subseteq LayerNodenames(vsrc')
          /\ ret' < 0 => vsrc' = vsrc
      ]_vars

\* the properties are those of the effective node of the layer: read-only
\* from the flag of the layer, no auto-read-only, the discard and
\* detect-zeroes modes the user asked for
BuiltAsEffective(props, src) ==
    /\ virJSONValueObjectGet(props, "read-only") = JBool(src.readonly)
    /\ ~virJSONValueObjectHasKey(props, "auto-read-only")
    /\ virJSONValueObjectGet(props, "discard")
          = (IF src.discard = "default" THEN NoValue ELSE JStr(src.discard))
    /\ virJSONValueObjectHasKey(props, "detect-zeroes")
          = (src.detect_zeroes # "default")

\* the properties are those of an internal node: auto-read-only, discard
\* "unmap", no read-only
BuiltAsInternal(props) ==
    /\ virJSONValueObjectGet(props, "auto-read-only") = JBool(TRUE)
    /\ ~virJSONValueObjectHasKey(props, "read-only")
    /\ virJSONValueObjectGet(props, "discard") = JStr("unmap")

(***************************************************************************)
(* C37: when qemuBlockReopenSliceExpand reopens the slice node of a layer  *)
(* that has no format node, the slice node is the effective node and its   *)
(* properties are built as for the effective layer, as                     *)
(* qemuBlockReopenAccess builds them for the same layer; they are built    *)
(* with the defaults of an internal layer only when a format node sits on  *)
(* top of the slice.                                                       *)
(***************************************************************************)
C37_SliceEffective ==
    [][ ( /\ out'.op = "slice-expand"
          /\ out'.result # NoValue
          /\ qemuBlockStorageSourceGetSliceNodename(vsrc) # NoValue ) =>
          IF qemuBlockStorageSourceGetFormatNodename(vsrc) = NoValue
          THEN BuiltAsEffective(out'.result, vsrc)
          ELSE BuiltAsInternal(out'.result)
      ]_vars

\* qemuBlockReopenAccess builds the properties of a slice node without a
\* format node on top as those of the effective layer in the requested
\* read-only state
C37_ReopenAccessEffective ==
    [][ ( /\ out'.op = "reopen-access"
          /\ out'.result # NoValue
          /\ qemuBlockStorageSourceGetSliceNodename(vsrc) # NoValue
          /\ qemuBlockStorageSourceGetFormatNodename(vsrc) = NoValue ) =>
          BuiltAsEffective(
              out'.result,
              [vsrc EXCEPT !.readonly = "readonly" \in out'.flags])
      ]_vars

(***************************************************************************)
(* C38: the wait loop of qemuBlockStorageSourceCreateGeneric updates the   *)
(* job and waits again and again while the job runs; when the device       *)
(* manager concludes the job at some time and every wait returns, the      *)
(* call returns.  It returns 0 only for a job that stopped running in a    *)
(* state other than FAILED and CANCELLED, it returns -1 with an error for  *)
(* a job that ended FAILED or CANCELLED and for a wait that failed, and it *)
(* finalizes the startup of the job it created before every return.  A     *)
(* wait is entered only in a running state, directly after an update.      *)
(***************************************************************************)
C38_WaitLoop ==
    /\ [](crt.pc = "returned" =>
            /\ crt.rc = 0 => /\ ~qemuBlockJobIsRunning(crt.state)
                             /\ crt.state \notin {"NONE", "NEW", "FAILED",
                                                  "CANCELLED"}
            /\ crt.state \in {"FAILED", "CANCELLED"} =>
                  crt.rc < 0 /\ crt.err # "none"
            /\ crt.err = "wait" => crt.rc < 0
            /\ crt.rc \in {0, -1}
            /\ crt.rc < 0 => crt.err # "none"
            /\ crt.finalized
                  = (IF Id("job-new", 0, 0) \in crt.rej THEN 0 ELSE 1))
    /\ [](crt.pc = "wait" => qemuBlockJobIsRunning(crt.state))
    /\ <>(crt.pc = "returned")

\* the call returned 0 after MaxWaits waits
C38_Witness ==
    /\ crt.pc = "returned"
    /\ crt.rc = 0
    /\ crt.waits = MaxWaits
    /\ crt.state = "COMPLETED"

\* the call returned -1 for a cancelled job
C38_WitnessCancelled ==
    /\ crt.pc = "returned"
    /\ crt.rc < 0
    /\ crt.state = "CANCELLED"
    /\ crt.waits >= 1

(***************************************************************************)
(* C39: the initialisation of the global firewall chains is free of races: *)
(* with threads calling networkAddFirewallRules and                        *)
(* networkPreReloadFirewallRules at the same time the chains are set up at *)
(* most once unless forced, chainInitDone and the cached errors errInitV4  *)
(* and errInitV6 are read and written only by a thread that holds          *)
(* chainInitLock, and networkAddFirewallRules never reads a cached error   *)
(* that a forced initialisation cleared and freed.                         *)
(***************************************************************************)
C39_InitRaceFree ==
    /\ fw.unforced <= 1
    /\ fw.unlocked = {}
    /\ ~fw.dangling

\* the chains are set up at most once unless forced, and the lock is held
\* by one thread, which is inside networkSetupPrivateChains
C39_SetupOnceUnlessForced ==
    /\ fw.unforced <= 1
    /\ \A t \in DOMAIN fw.th :
          fw.th[t].pc \in {"check", "clear4", "clear6", "setup4", "setup6",
                           "done", "unlock"} <=> fw.lock = t

\* networkAddFirewallRules never reads a freed error
C39_NoFreedErrorRead == ~fw.dangling
====
